---- MODULE Spec2Model ----
(***************************************************************************)
(* Availability scheduling engine of the barber booking platform           *)
(* (ScheduleCalendar component): the client-held schedule, the slot store  *)
(* and working-day map it talks to, the background poll, the realtime      *)
(* subscription, and the single-slot / batch mutation handlers.            *)
(*                                                                         *)
(* Every handler is followed request by request: the step of the click (or *)
(* of the timer, the notification, the effect) runs the handler up to its  *)
(* first await, and each answer of a request runs it up to the next one.   *)
(* A handler that waits for an answer is a pending run; it keeps what its  *)
(* closure captured at the click (barberId, pageIndex, weekSchedule, the   *)
(* slot under edit), while state setters in functional form and the        *)
(* session token in localStorage are read when the code after the await    *)
(* runs.                                                                   *)
(*                                                                         *)
(* Dates are day numbers (Today is day 0).  A time string "HH:MM" is the   *)
(* tuple <<h, m>>, "HH:MM:SS" is <<h, m, s>>.  dayIndex is 0-based as in   *)
(* the source; sequences are 1-based, so day i of a schedule is ws[i + 1]. *)
(***************************************************************************)
EXTENDS Integers, Sequences, FiniteSets, Bags, TLC

(* ------------------------- program constants -------------------------- *)
DAYS_PER_PAGE == 8
MAX_PAGES == 3
QUICK_SETUP_DAYS == 7
SLOT_MINUTES == 60
NEXT_SLOT_STEP == 30
Today == 0

(* ------------------------------ bounds -------------------------------- *)
(* clicks, ticks, notifications and store changes explored per behaviour,  *)
(* for each specification below; answers of requests are not counted       *)
MaxSteps == 2
MaxSyncSteps == 3
MaxEditSteps == 4
MaxToggleSteps == 3
MaxAddSteps == 3
MaxBatchSteps == 2
MaxSetupSteps == 2
MaxProviderSteps == 4
MaxHealSteps == 4
MaxViewSteps == 3
MaxFlagSteps == 2
MaxTargetSteps == 3
MaxProcessingSteps == 2
MaxRoundTripSteps == 4
(* requests that are refused or fail, per behaviour *)
MaxFaults == 1
MaxIds == 40

(* day indexes the user acts on, start times typed into the time inputs,  *)
(* quick-setup form contents; the wall clock reads 09:15 throughout       *)
InputDays == {0, 7}
InputTimes == {<<9, 0>>, <<10, 0>>}
QuickSetupInputs ==
  { [from |-> <<9, 0>>, to |-> <<9, 30>>, duration |-> 30],
    [from |-> <<9, 0>>, to |-> <<9, 20>>, duration |-> 30],
    [from |-> <<9, 30>>, to |-> <<9, 0>>, duration |-> 30],
    [from |-> <<9, 0>>, to |-> <<9, 30>>, duration |-> 0] }
NoQuickSetup == [from |-> <<0, 0>>, to |-> <<0, 0>>, duration |-> 0]

IdPool == 1..MaxIds
NoEdit == [dayIndex |-> -1, slotId |-> 0]
NoDay == -1

(* the time input of the picker left empty *)
EmptyTime == <<>>

(* the refreshTrigger prop when the parent does not pass it *)
Undefined == -1

(* barberId while the barberId prop is not passed and no session has been  *)
(* verified; what localStorage returns when it holds no session token      *)
Null == "null"
NoToken == "none"

(* ----------------------------- time helpers --------------------------- *)
Minutes(t) == t[1] * 60 + t[2]

FormatHM(totalMinutes) == <<totalMinutes \div 60, totalMinutes % 60>>

normalizeTime(t) ==
  << t[1],
     IF Len(t) >= 2 THEN t[2] ELSE 0,
     IF Len(t) >= 3 THEN t[3] ELSE 0 >>

Slice5(t) == <<t[1], t[2]>>

calculateEndTime(startTime) ==
  LET totalMinutes == Minutes(startTime) + SLOT_MINUTES
  IN  <<(totalMinutes \div 60) % 24, totalMinutes % 60>>

(* ------------------------- calendar windowing ------------------------- *)
getPageStartDate(pageIdx) == Today + pageIdx * DAYS_PER_PAGE

getActualDate(dayIndex, pageIdx) == getPageStartDate(pageIdx) + dayIndex

WindowDates == {Today + o : o \in 0..(QUICK_SETUP_DAYS - 1)}

(* ------------------------------ state --------------------------------- *)
VARIABLES
  dbSlots,          \* slot store: set of rows [id, date, start, end, booked]
  workingDays,      \* working-day map: the dates stored as true
  otherStore,       \* the other provider's slots and working-day map
  workingDaysNull,  \* the dates stored as true under the key working_days_null
  propBarberId,     \* the barberId prop (Null when the parent does not
                    \* pass it)
  barberId,         \* the provider whose calendar is shown (Null before it
                    \* is known); dbSlots and workingDays are this
                    \* provider's part of the stores
  refreshTrigger,   \* the prop of that name (Undefined when not passed)
  clock,            \* the dates on which the local clock changes
  sessionToken,     \* the session token in localStorage, named by the
                    \* user it was issued to (NoToken when there is none)
  mounted,          \* the component is on screen
  weekSchedule,     \* client-held schedule: sequence of DaySchedule
  pageIndex,
  editingSlot,      \* [dayIndex, slotId] or NoEdit
  pauseAutoReload,
  timePickerDayIndex,          \* the day the time picker was opened for
  showTimePickerModal,
  quickSetup,                  \* the quick-setup form while the confirm modal
                               \* holds it (NoQuickSetup when it is closed)
  isQuickSetupProcessing,
  poll,             \* the running interval timers, each with what its
                    \* callback closed over
  sub,              \* the open realtime channels, each with what its
                    \* handler closed over
  runs,             \* the handler runs that wait for an answer (a bag: two
                    \* runs that captured the same are two runs)
  showSkeleton,     \* the skeleton is rendered in place of the day cards
  skeletonTimers,   \* the timers of showSkeleton that have not fired
  steps,            \* clicks, ticks and store changes left to explore
  faults,           \* refused requests left to explore
  ev                \* the last step of a handler and its outcome

vars == << dbSlots, workingDays, otherStore, workingDaysNull, propBarberId, barberId,
           refreshTrigger, clock,
           sessionToken, mounted, weekSchedule, pageIndex, editingSlot,
           pauseAutoReload, timePickerDayIndex, showTimePickerModal, quickSetup,
           isQuickSetupProcessing, poll, sub, runs, showSkeleton, skeletonTimers,
           steps, faults, ev >>

Barbers == {"b1", "b2"}

storeVars == <<dbSlots, workingDays, otherStore, workingDaysNull>>

(* what only the parent, the browser and the user's log-in change *)
propVars == <<propBarberId, barberId, refreshTrigger, clock, mounted, sessionToken>>

skeletonVars == <<showSkeleton, skeletonTimers>>

pickerVars == <<timePickerDayIndex, showTimePickerModal>>
formVars == <<pickerVars, quickSetup>>
editVars == <<editingSlot, pauseAutoReload, sub>>

(* the user whose session mounts the calendar *)
SessionUser == "b1"

(* the provider dbSlots and workingDays belong to: the one shown, or while *)
(* barberId is Null the one a verified session will give                   *)
Provider == IF barberId = Null THEN SessionUser ELSE barberId

(* The rows and working days stored for b.  A slot request names its       *)
(* provider by the x-session-token header alone, so b is the user of the   *)
(* token the handler read; the supabase queries (barber_id) and the        *)
(* working-day entry (working_days_<barberId>) take the barberId of the    *)
(* closure, which may be Null: no row has that barber_id.                  *)
StoreOf(b) ==
  IF b = Null THEN [rows |-> {}, wd |-> workingDaysNull]
  ELSE IF b = Provider THEN [rows |-> dbSlots, wd |-> workingDays]
  ELSE otherStore

(* the store of b becomes st *)
PutStore(b, st) ==
  /\ dbSlots' = IF b = Provider THEN st.rows ELSE dbSlots
  /\ workingDays' = IF b = Provider THEN st.wd ELSE workingDays
  /\ otherStore' = IF b \in Barbers \ {Provider} THEN st ELSE otherStore
  /\ workingDaysNull' = IF b = Null THEN st.wd ELSE workingDaysNull

showQuickSetupConfirmModal == quickSetup # NoQuickSetup

Now == 9 * 60 + 15

(* ------------------------- building a schedule ------------------------ *)
(* the comparator of day.slots.sort is not positive: it takes the start   *)
(* times in minutes and nothing else                                       *)
SlotKeyLeq(a, b) == Minutes(a.time) <= Minutes(b.time)

(* day.slots.sort(...): the sort is stable, slots with the same start time *)
(* stay in the order in which they were pushed                             *)
RECURSIVE SortSlots(_)
SortSlots(slots) ==
  IF slots = <<>> THEN <<>>
  ELSE LET sorted == SortSlots(SubSeq(slots, 1, Len(slots) - 1))
           last == slots[Len(slots)]
       IN  SelectSeq(sorted, LAMBDA x : SlotKeyLeq(x, last))
             \o <<last>>
             \o SelectSeq(sorted, LAMBDA x : ~SlotKeyLeq(x, last))

LocalSlot(row) ==
  [id |-> row.id, time |-> Slice5(row.start),
   available |-> ~row.booked, booked |-> row.booked]

(* The local clock: the dates on which it is set forward by an hour (the   *)
(* day lasts 23 hours) and back by an hour (25 hours).                     *)
NoClockChange == [forward |-> {}, back |-> {}]

ClockChanges ==
  { NoClockChange,
    [forward |-> {Today + 4}, back |-> {}],
    [forward |-> {Today}, back |-> {}],
    [forward |-> {}, back |-> {Today + 4}] }

(* the clocks the calendar is run under *)
InputClocks == {NoClockChange, [forward |-> {Today + 4}, back |-> {}]}

(* hours from the local midnight that starts date a to the one of date b *)
HoursBetween(c, a, b) ==
  (b - a) * 24
    - Cardinality({d \in c.forward : a <= d /\ d < b})
    + Cardinality({d \in c.back : a <= d /\ d < b})

(* Math.floor((slotDate - windowStart) / 86400000): the row a slot goes to *)
DaysDiff(c, windowStart, slotDate) == HoursBetween(c, windowStart, slotDate) \div 24

(* the rows of a response that loadSlots puts on the day with index idx *)
RowsAt(c, pageIdx, rows, idx) ==
  {r \in rows : DaysDiff(c, getPageStartDate(pageIdx), r.date) = idx}

(* the slots pushed to the day with index idx while the response data is   *)
(* gone through from its first row to its last                             *)
Pushed(c, pageIdx, data, idx) ==
  LET put == SelectSeq(data,
               LAMBDA r : DaysDiff(c, getPageStartDate(pageIdx), r.date) = idx)
  IN  [k \in 1..Len(put) |-> LocalSlot(put[k])]

(* newSchedule of loadSlots for the response data (a sequence of rows):    *)
(* the days of the page with the flags of the working-day entry, every row *)
(* pushed to the day of its daysDiff, then the slots of each day sorted    *)
BuildSchedule_offWhenEmpty(c, pageIdx, data, wd) ==
  [i \in 1..DAYS_PER_PAGE |->
     LET dateStr == getActualDate(i - 1, pageIdx)
         daySlots == SortSlots(Pushed(c, pageIdx, data, i - 1))
     IN  [date |-> dateStr, isOff |-> daySlots = <<>>, slots |-> daySlots]]

BuildSchedule(c, pageIdx, data, wd) ==
  [i \in 1..DAYS_PER_PAGE |->
     LET dateStr == getActualDate(i - 1, pageIdx)
     IN  [date |-> dateStr,
          isOff |-> ~(dateStr \in wd),
          slots |-> SortSlots(Pushed(c, pageIdx, data, i - 1))]]

(* The request names no order and the server is free to list the rows in   *)
(* any.  loadSlots reads the order of a response only among the rows it    *)
(* pushes to the same day, and the sort of a day is stable and compares    *)
(* start times alone, so of that order only the order of the rows of one   *)
(* day that start at the same time is left in the schedule.  One response  *)
(* is drawn for each schedule a load can build.                            *)
(* Listings(S): the sequences that list every row of S once, by start      *)
(* time, rows of the same start time in every order.                       *)
RECURSIVE Listings(_)
Listings(S) ==
  IF S = {} THEN {<<>>}
  ELSE LET firsts == {x \in S : \A y \in S : SlotKeyLeq(LocalSlot(x), LocalSlot(y))}
       IN  UNION {{<<x>> \o s : s \in Listings(S \ {x})} : x \in firsts}

(* the rows are listed day by day; the rows loadSlots pushes to no day are *)
(* left out                                                                *)
RECURSIVE ListedFrom(_, _, _, _)
ListedFrom(c, pageIdx, rows, idx) ==
  IF idx >= DAYS_PER_PAGE THEN {<<>>}
  ELSE {first \o rest : first \in Listings(RowsAt(c, pageIdx, rows, idx)),
                        rest \in ListedFrom(c, pageIdx, rows, idx + 1)}

ResponseOrders(c, pageIdx, rows) == ListedFrom(c, pageIdx, rows, 0)

(* the schedules a load may build of rows and the working days wd *)
Schedules(c, pageIdx, rows, wd) ==
  {BuildSchedule(c, pageIdx, data, wd) : data \in ResponseOrders(c, pageIdx, rows)}

(* GET /barber/slots?start_date&end_date: the rows of the page *)
WindowRows(rows, pageIdx) ==
  {r \in rows : /\ getPageStartDate(pageIdx) <= r.date
                /\ r.date <= getPageStartDate(pageIdx) + (DAYS_PER_PAGE - 1)}

SeqRange(s) == {s[i] : i \in 1..Len(s)}

HasDay(d) == d + 1 \in DOMAIN weekSchedule

DaySlots(d) == IF HasDay(d) THEN SeqRange(weekSchedule[d + 1].slots) ELSE {}

ScheduleIds(ws) == UNION {{s.id : s \in SeqRange(ws[i].slots)} : i \in DOMAIN ws}

LocalIds == ScheduleIds(weekSchedule)

(* ----------------------------- pending runs --------------------------- *)
(* kind: the handler ("load" for a loadSlots call of a timer, a channel or *)
(* an effect, "verify" for getBarberId); phase: the request it waits for;  *)
(* barber, page, ws, skel: what its closure captured (skel: showSkeleton); *)
(* token: the session token it read; fg: its loadSlots call is one with    *)
(* isBackgroundRefresh false; day, date, id, time, q, via: what it was     *)
(* called with;                                                            *)
(* rows: the rows its loadSlots call was answered with; isWorkingDay, got, *)
(* data: the working-day call under way; rest: the dates its loop has      *)
(* still to go through; fails: what went wrong in its working-day calls    *)
Run(kind, phase, barber, pageIdx) ==
  [kind |-> kind, phase |-> phase, barber |-> barber, page |-> pageIdx,
   token |-> NoToken, fg |-> FALSE, skel |-> showSkeleton, ws |-> <<>>, day |-> NoDay, date |-> NoDay, id |-> 0, time |-> EmptyTime,
   q |-> NoQuickSetup, via |-> "none", rows |-> {},
   isWorkingDay |-> FALSE, got |-> "none", data |-> {}, rest |-> <<>>,
   fails |-> {}]

Pending == BagToSet(runs)

One(r) == SetToBag({r})

Copies(r, n) == IF n = 0 THEN EmptyBag ELSE [x \in {r} |-> n]

BatchKinds == {"setup", "clear"}

(* the loadSlots calls that have not returned *)
inflight == {r \in Pending : r.phase \in {"rows", "map"}}

(* the batch operations that have not returned *)
batchOps == {r \in Pending : r.kind \in BatchKinds}

BatchRuns == BagCardinality([r \in batchOps |-> runs[r]])

RunIds ==
  UNION {{x.id : x \in r.rows} \cup {r.id} \cup ScheduleIds(r.ws) : r \in Pending}

UsedIds ==
  {r.id : r \in dbSlots} \cup {r.id : r \in otherStore.rows}
    \cup LocalIds \cup RunIds \cup {editingSlot.slotId}

FreeIds == IdPool \ UsedIds

(* --------------------------- event records ---------------------------- *)
(* The toggles of one day made in a row, each clicked when no handler run  *)
(* is under way and the first one turning a day shown as working off:      *)
(* date (NoDay before the first click) and day index, isWorkingDay and     *)
(* ids: the stored flag of the date and the ids of its stored rows at the  *)
(* first click, done: what the runs that have returned reported.  The      *)
(* record is kept from FirstTrip on, until a click that is not of the row  *)
(* or a toggle that reports an error; from NoTrip on it is not kept.       *)
NoTrip ==
  [kept |-> FALSE, day |-> NoDay, date |-> NoDay, isWorkingDay |-> FALSE, ids |-> {},
   done |-> <<>>]

FirstTrip == [NoTrip EXCEPT !.kept = TRUE]

TripAfter(op, res, arg) ==
  LET trip == ev.trip
      inRow == /\ runs = EmptyBag
               /\ IF trip.date = NoDay THEN res = "delete" ELSE arg[2] = trip.date
      clicked == IF trip.date # NoDay THEN trip
                 ELSE [trip EXCEPT !.day = arg[1], !.date = arg[2],
                                   !.isWorkingDay = arg[2] \in workingDays,
                                   !.ids = {r.id : r \in {x \in dbSlots : x.date = arg[2]}}]
      returned(t) == [t EXCEPT !.done = Append(t.done, res)]
  IN  IF ~trip.kept \/ op \notin {"toggleDayOffCall", "toggleDayOff"} THEN trip
      ELSE IF op = "toggleDayOffCall" THEN (IF inRow THEN clicked ELSE NoTrip)
      ELSE IF res = "error" THEN NoTrip
      ELSE IF runs # EmptyBag THEN returned(trip)
      ELSE IF inRow THEN returned(clicked)
      ELSE NoTrip

(* op: the handler whose outcome the step settled, or the step itself when *)
(* the handler goes on; res: the outcome; loads: loadSlots calls made by   *)
(* the step; paused: pauseAutoReload when it ran; arg: its input           *)
Ev(op, res, loads, arg) ==
  [op |-> op, res |-> res, loads |-> loads, paused |-> pauseAutoReload, arg |-> arg,
   trip |-> TripAfter(op, res, arg)]

NoArg == <<>>

(* ----------------------------- step kinds ----------------------------- *)
Tick == steps > 0 /\ steps' = steps - 1

(* a click: the handler of the current render runs up to its first await; *)
(* no handler calls loadSlots before its first await                       *)
HandlerStep == Tick /\ mounted /\ UNCHANGED <<storeVars, propVars, skeletonVars>>

(* a request is answered: accepted, or refused (one of the faults) *)
Outcome(ok) ==
  IF ok THEN faults' = faults ELSE faults > 0 /\ faults' = faults - 1

(* a state setter called after the component is gone changes nothing *)
SetState(new, old) == IF mounted THEN new ELSE old

(* ------------------------------ skeleton ------------------------------ *)
(* skeletonTimers: the timers of showSkeleton that have not fired and are  *)
(* not cleared, in the order in which they were set.  shows: the 800 ms    *)
(* timer of a loadSlots call (setShowSkeleton(true)), else the 300 ms      *)
(* timer of a finally block (setShowSkeleton(false)); handle:              *)
(* window.__skeletonTimer refers to it; due: the 5000 ms interval of the   *)
(* poll effect was set, or has ticked, since the timer was set, so the     *)
(* timer fires before the next tick of the interval.                       *)
NoTimers == <<>>

ShowTimer == [shows |-> TRUE, handle |-> TRUE, due |-> FALSE]

HideTimer == [shows |-> FALSE, handle |-> FALSE, due |-> FALSE]

(* window.__skeletonTimer = setTimeout(() => setShowSkeleton(true), 800) *)
TimerStored(timers) ==
  Append([i \in 1..Len(timers) |-> [timers[i] EXCEPT !.handle = FALSE]], ShowTimer)

(* clearTimeout(window.__skeletonTimer) *)
TimerCleared(timers) == SelectSeq(timers, LAMBDA t : ~t.handle)

(* the finally block of a foreground call whose closure holds skel for     *)
(* showSkeleton: the skeleton is hidden after 300 ms when it holds true    *)
HideSet(timers, skel) == IF skel THEN Append(timers, HideTimer) ELSE timers

(* setInterval(..., 5000), or a tick of it *)
TimersDue(timers) == [i \in 1..Len(timers) |-> [timers[i] EXCEPT !.due = TRUE]]

(* What showSkeleton holds when the due timers have fired.  A timer fires  *)
(* after the timers of its kind set before it, and an 800 ms timer after   *)
(* the 300 ms timers set before it; a 300 ms timer may fire before or      *)
(* after an 800 ms timer set before it.                                    *)
ShownAfter(timers, shown) ==
  LET due == SelectSeq(timers, LAMBDA t : t.due)
  IN  IF due = <<>> THEN {shown}
      ELSE IF due[Len(due)].shows THEN {TRUE}
      ELSE {FALSE} \cup {TRUE : i \in {k \in 1..Len(due) : due[k].shows}}

(* a tick of the interval: the due timers have fired, and the timers set   *)
(* since the tick before are due before the next one                       *)
TimersAtTick ==
  /\ \E shown \in ShownAfter(skeletonTimers, showSkeleton) :
       showSkeleton' = IF mounted THEN shown ELSE showSkeleton
  /\ skeletonTimers' = TimersDue(SelectSeq(skeletonTimers, LAMBDA t : ~t.due))

(* the timers after a loadSlots(false) call of a closure that captured     *)
(* barber and skel has gone on to its request or has returned without one  *)
ForegroundTimers(timers, barber, skel) ==
  IF barber = Null THEN timers
  ELSE IF sessionToken # NoToken THEN TimerStored(timers)
  ELSE HideSet(TimerCleared(TimerStored(timers)), skel)

(* a foreground loadSlots call that waited for an answer returns *)
LoadEnded(skel) ==
  /\ skeletonTimers' = HideSet(TimerCleared(skeletonTimers), skel)
  /\ showSkeleton' = IF skel \/ ~mounted THEN showSkeleton ELSE FALSE

(* what no answer of a request changes *)
respFrame == <<pageIndex, poll, propVars, steps, showTimePickerModal, quickSetup>>

(* ------------------------------ loadSlots ----------------------------- *)
(* A call returns at once when the barberId of its closure is Null, then   *)
(* reads the session token and returns at once when there is none.  Else   *)
(* it asks, with that token, for the rows of the page its closure captured *)
(* and, when they arrive, for the working-day entry of the barberId of its *)
(* closure; the schedule is built and set when that is answered.           *)
loadSlots(r) ==
  [r EXCEPT !.phase = "rows", !.rows = {}, !.token = sessionToken, !.fg = TRUE]

(* a loadSlots call of a closure that captured barber goes on to a request *)
Loads(barber) == barber # Null /\ sessionToken # NoToken

(* what a loadSlots(false) call of a closure that captured barber and skel *)
(* makes of the skeleton, up to its request: with a session token the      *)
(* 800 ms timer is set; without one the timer is set and cleared and the   *)
(* skeleton hidden, at once and in the finally block                       *)
ForegroundCall(barber, skel) ==
  /\ skeletonTimers' = ForegroundTimers(skeletonTimers, barber, skel)
  /\ showSkeleton' = IF barber = Null \/ sessionToken # NoToken \/ ~mounted
                       THEN showSkeleton ELSE FALSE

(* the same for the call of the poll effect, which then sets its interval *)
PollEffectCall(barber, skel) ==
  /\ skeletonTimers' = IF barber = Null THEN skeletonTimers
                        ELSE TimersDue(ForegroundTimers(skeletonTimers, barber, skel))
  /\ showSkeleton' = IF barber = Null \/ sessionToken # NoToken \/ ~mounted
                       THEN showSkeleton ELSE FALSE

(* loadSlots(true) of a timer, a channel or the refresh effect *)
Load(barber, pageIdx) ==
  [Run("load", "rows", barber, pageIdx) EXCEPT !.token = sessionToken, !.skel = FALSE]

(* loadSlots(false) of the poll effect *)
LoadForeground(barber, pageIdx) == loadSlots(Run("load", "rows", barber, pageIdx))

(* what the caller of loadSlots does when the call has returned: the time  *)
(* picker handler resets its state, a batch operation runs its finally     *)
PickerAfterLoad(r) ==
  IF r.kind = "add" /\ r.via = "picker" THEN NoDay ELSE timePickerDayIndex

ProcessingAfterLoad(r) ==
  IF r.kind \in BatchKinds THEN FALSE ELSE isQuickSetupProcessing

(* the handler of run r is over *)
Settled(r) ==
  /\ runs' = runs (-) One(r)
  /\ timePickerDayIndex' = SetState(PickerAfterLoad(r), timePickerDayIndex)
  /\ isQuickSetupProcessing' = SetState(ProcessingAfterLoad(r), isQuickSetupProcessing)

(* the handler of run r returns; if what it waited for was a foreground    *)
(* loadSlots call, that call's finally block has run                       *)
Returned(r) ==
  /\ Settled(r)
  /\ IF r.fg /\ r.phase \in {"rows", "map"}
       THEN LoadEnded(r.skel)
       ELSE UNCHANGED skeletonVars

(* the handler of run r waits for its next answer as r2 *)
Suspended(r, r2) ==
  /\ runs' = (runs (-) One(r)) (+) One(r2)
  /\ UNCHANGED <<timePickerDayIndex, isQuickSetupProcessing, skeletonVars>>

(* the handler of run r ends with await loadSlots() *)
EndWithLoad(r) ==
  /\ IF Loads(r.barber)
       THEN /\ runs' = (runs (-) One(r)) (+) One(loadSlots(r))
            /\ UNCHANGED <<timePickerDayIndex, isQuickSetupProcessing>>
       ELSE Settled(r)
  /\ ForegroundCall(r.barber, r.skel)

(* loadSlots(true) calls of timers, channels and the refresh effect *)
Called(loads) ==
  runs' = IF sessionToken # NoToken THEN runs (+) loads ELSE runs

(* the loadSlots calls of the poll effect and of the refresh effect that   *)
(* go on to a request, in a render with barber and pageIdx                 *)
PollEffectCalls(barber, pageIdx) ==
  IF Loads(barber) THEN One(LoadForeground(barber, pageIdx)) ELSE EmptyBag

RefreshEffectCalls(trigger, barber, pageIdx) ==
  IF Loads(barber) /\ trigger # Undefined THEN One(Load(barber, pageIdx)) ELSE EmptyBag

(* the request for the rows is answered *)
slotsResponse ==
  \E r \in Pending, ok \in BOOLEAN :
    /\ r.phase = "rows"
    /\ Outcome(ok)
    /\ IF ok
         THEN /\ Suspended(r, [r EXCEPT !.phase = "map",
                                        !.rows = WindowRows(StoreOf(r.token).rows, r.page)])
              /\ ev' = Ev("slotsResponse", "ok", 0, <<r.kind>>)
         ELSE /\ Returned(r)
              /\ ev' = Ev("loadDone", "failed", 0, <<"none", r.kind>>)
    /\ UNCHANGED <<storeVars, weekSchedule, editVars, respFrame>>

(* The request for the working-day entry is answered and the schedule is   *)
(* set: setWeekSchedule(newSchedule).  An answer with an error status, or  *)
(* none at all, leaves workingDaysData empty and the call goes on with it. *)
(* r.rows holds the rows the response listed; the order in which it listed *)
(* them is drawn here, where it is read.                                   *)
KvGetOutcomes == {"ok", "notOk"}

kvResponse ==
  \E r \in Pending, kvGet \in KvGetOutcomes :
    /\ r.phase = "map"
    /\ Outcome(kvGet = "ok")
    /\ \E data \in ResponseOrders(clock, r.page, r.rows) :
         LET workingDaysData == IF kvGet = "ok" THEN StoreOf(r.barber).wd ELSE {}
         IN  weekSchedule' = SetState(BuildSchedule(clock, r.page, data, workingDaysData),
                                      weekSchedule)
    /\ Returned(r)
    /\ ev' = Ev("loadDone", IF mounted THEN "applied" ELSE "dropped", 0, <<kvGet, r.kind>>)
    /\ UNCHANGED <<storeVars, editVars, respFrame>>

(* --------------------------- effect closures -------------------------- *)
(* Poll effect, deps [barberId, pageIndex]: when one of them changes the   *)
(* cleanup clears the interval and, if barberId is set, loadSlots(false)   *)
(* is called and a new interval is set; its callback keeps the barberId,   *)
(* pageIndex and pauseAutoReload of that render.                           *)
Timer(barber, pause, pageIdx) == [barber |-> barber, paused |-> pause, page |-> pageIdx]

TimerSet(barber, pause, pageIdx) ==
  IF barber # Null THEN {Timer(barber, pause, pageIdx)} ELSE {}

PollEffect_noCleanup(oldPoll, oldDeps, newDeps, pause) ==
  IF newDeps # oldDeps
    THEN oldPoll \cup TimerSet(newDeps[1], pause, newDeps[2])
    ELSE oldPoll

PollEffect(oldPoll, oldDeps, newDeps, pause) ==
  IF newDeps # oldDeps
    THEN TimerSet(newDeps[1], pause, newDeps[2])
    ELSE oldPoll

(* the number of loadSlots calls the poll effect makes when it runs *)
PollEffectLoads(barber) == IF barber # Null THEN 1 ELSE 0

(* Realtime effect, deps [barberId, pauseAutoReload]: when one of them     *)
(* changes the cleanup removes the channel and, if barberId is set, a new  *)
(* one is subscribed for the barberId of that render, with the handler of  *)
(* that render.                                                            *)
Channel(barber, pause, pageIdx) == [barber |-> barber, paused |-> pause, page |-> pageIdx]

ChannelSet(barber, pause, pageIdx) ==
  IF barber # Null THEN {Channel(barber, pause, pageIdx)} ELSE {}

RealtimeEffect_noPauseDep(oldSub, oldDeps, newDeps, pageIdx) ==
  IF newDeps[1] # oldDeps[1]
    THEN ChannelSet(newDeps[1], newDeps[2], pageIdx)
    ELSE oldSub

RealtimeEffect_noCleanup(oldSub, oldDeps, newDeps, pageIdx) ==
  IF newDeps # oldDeps
    THEN oldSub \cup ChannelSet(newDeps[1], newDeps[2], pageIdx)
    ELSE oldSub

RealtimeEffect(oldSub, oldDeps, newDeps, pageIdx) ==
  IF newDeps # oldDeps
    THEN ChannelSet(newDeps[1], newDeps[2], pageIdx)
    ELSE oldSub

(* Refresh effect, deps [refreshTrigger, barberId]: it runs at mount and   *)
(* when one of them changes, and calls loadSlots(true) when the prop is    *)
(* passed and barberId is set.  The number of loadSlots calls it makes:    *)
RefreshEffect(trigger, barber) == IF trigger # Undefined /\ barber # Null THEN 1 ELSE 0

(* the loadSlots calls of the poll effect and the refresh effect when both *)
(* run, in a render with this barberId and page                            *)
EffectLoads(trigger, barber) == PollEffectLoads(barber) + RefreshEffect(trigger, barber)

(* ------------------------------- Init --------------------------------- *)
(* what the store holds when the calendar is mounted *)
Row(id, date, startTime, booked) ==
  [id |-> id, date |-> date, start |-> normalizeTime(startTime),
   end |-> normalizeTime(calculateEndTime(startTime)), booked |-> booked]

InitialStores ==
  { [rows |-> {}, wd |-> {}],
    [rows |-> {Row(1, Today, <<10, 0>>, FALSE), Row(2, Today, <<10, 30>>, FALSE),
               Row(3, Today + 15, <<10, 0>>, FALSE)},
     wd |-> {Today, Today + 7, Today + 15}],
    [rows |-> {Row(1, Today + 7, <<10, 0>>, FALSE)}, wd |-> {Today + 7}] }

(* what the store holds for the second provider *)
OtherInitialStore ==
  [rows |-> {Row(MaxIds, Today + 1, <<11, 0>>, FALSE)}, wd |-> {Today + 1}]

(* getBarberId up to its request: verify-session is asked about the token *)
(* found in localStorage; without a token nothing is asked                 *)
getBarberId ==
  IF sessionToken = NoToken THEN EmptyBag
  ELSE One([Run("verify", "verify", barberId, pageIndex)
              EXCEPT !.token = sessionToken, !.skel = FALSE])

(* The calendar has just been mounted by a logged-in user, with one of     *)
(* props as its barberId prop (Null: the prop is not passed).  With the    *)
(* prop, the poll effect has called loadSlots(false) and set its timer,    *)
(* the realtime effect has subscribed, and the refresh effect has called   *)
(* loadSlots(true) if its prop is passed.  Without it barberId is null,    *)
(* the effects have done nothing and getBarberId waits for its answer.     *)
InitOf(props, budget, faultBudget, clocks, triggers, trip) ==
  /\ \E st \in InitialStores :
       /\ dbSlots = st.rows
       /\ workingDays = st.wd
  /\ otherStore = OtherInitialStore
  /\ workingDaysNull = {}
  /\ propBarberId \in props
  /\ barberId = propBarberId
  /\ refreshTrigger \in triggers
  /\ clock \in clocks
  /\ sessionToken = SessionUser
  /\ mounted = TRUE
  /\ weekSchedule = <<>>
  /\ pageIndex = 0
  /\ editingSlot = NoEdit
  /\ pauseAutoReload = FALSE
  /\ timePickerDayIndex = NoDay
  /\ showTimePickerModal = FALSE
  /\ quickSetup = NoQuickSetup
  /\ isQuickSetupProcessing = FALSE
  /\ poll = TimerSet(barberId, FALSE, 0)
  /\ sub = ChannelSet(barberId, FALSE, 0)
  /\ showSkeleton = FALSE
  /\ skeletonTimers = IF barberId = Null THEN NoTimers
                      ELSE TimersDue(TimerStored(NoTimers))
  /\ runs = IF barberId = Null THEN getBarberId
            ELSE PollEffectCalls(barberId, 0)
                   (+) RefreshEffectCalls(refreshTrigger, barberId, 0)
  /\ steps = budget
  /\ faults = faultBudget
  /\ ev = [op |-> "mount", res |-> IF barberId = Null THEN "verify" ELSE "load",
           loads |-> EffectLoads(refreshTrigger, barberId),
           paused |-> FALSE, arg |-> NoArg, trip |-> trip]

(* the barberId prop is passed *)
InitWith(budget, faultBudget, clocks, triggers) ==
  InitOf({SessionUser}, budget, faultBudget, clocks, triggers, NoTrip)

Init == InitOf({SessionUser, Null}, MaxSteps, MaxFaults, InputClocks, {Undefined, 0}, NoTrip)

(* a modal dialog is open: the page behind it takes no clicks *)
ModalOpen == showTimePickerModal \/ showQuickSetupConfirmModal

(* --------------------------- refresh sources -------------------------- *)
(* the interval callback of timer t *)
PollRun(t) ==
  /\ TimersAtTick
  /\ IF t.paused
       THEN /\ UNCHANGED runs
            /\ ev' = Ev("pollTick", "skipped", 0, <<t.barber, t.page>>)
       ELSE /\ Called(One(Load(t.barber, t.page)))
            /\ ev' = Ev("pollTick", "load", 1, <<t.barber, t.page>>)
  /\ UNCHANGED <<storeVars, propVars, weekSchedule, pageIndex, editVars, formVars,
                 isQuickSetupProcessing, poll, faults>>

PollTick ==
  \E t \in poll :
    /\ Tick
    /\ PollRun(t)

(* an UPDATE notification for a row of provider b: the handler of every   *)
(* channel filtered on b runs, with the barberId and page it closed over   *)
PushFor(b) ==
  LET channels == {c \in sub : c.barber = b}
      loading == {c \in channels : ~c.paused}
  IN  /\ Tick
      /\ Called(SetToBag({Load(c.barber, c.page) : c \in loading}))
      /\ ev' = Ev("pushReceived",
                  IF channels = {} THEN "noChannel"
                  ELSE IF loading = {} THEN "skipped" ELSE "load",
                  Cardinality(loading), <<b>>)
      /\ UNCHANGED <<storeVars, propVars, weekSchedule, pageIndex, editVars, formVars,
                     isQuickSetupProcessing, poll, skeletonVars, faults>>

PushReceived == PushFor(barberId)

PushForOtherProvider == \E b \in Barbers \ {barberId} : PushFor(b)

(* the parent passes a new value of the refreshTrigger prop *)
RefreshTrigger ==
  \E v \in {0, 1} \ {refreshTrigger} :
    /\ Tick
    /\ mounted
    /\ refreshTrigger' = v
    /\ Called(RefreshEffectCalls(v, barberId, pageIndex))
    /\ ev' = Ev("refreshTrigger", "load", RefreshEffect(v, barberId), NoArg)
    /\ UNCHANGED <<storeVars, propBarberId, barberId, clock, mounted, sessionToken,
                   weekSchedule, pageIndex, editVars, formVars, isQuickSetupProcessing,
                   poll, skeletonVars, faults>>

(* the same once the user and the store have come to rest: the timer keeps *)
(* firing, each tick after the answers to the one before have arrived      *)
AtRest == steps = 0

PollTickAtRest ==
  \E t \in poll :
    /\ AtRest
    /\ runs = EmptyBag
    /\ sessionToken # NoToken
    /\ PollRun(t)
    /\ UNCHANGED steps

(* --------------------------- provider change -------------------------- *)
(* setBarberId(b): the effects that depend on barberId are cleaned up and  *)
(* run again (refresh effect, realtime effect, poll effect with its first  *)
(* loadSlots); nothing else of the state is reset.  dbSlots and            *)
(* workingDays become the part of the stores of the provider now shown.    *)
setBarberId(b) ==
  /\ barberId' = b
  /\ IF b = Provider
       THEN UNCHANGED storeVars
       ELSE /\ dbSlots' = otherStore.rows
            /\ workingDays' = otherStore.wd
            /\ otherStore' = [rows |-> dbSlots, wd |-> workingDays]
            /\ UNCHANGED workingDaysNull
  /\ poll' = PollEffect(poll, <<barberId, pageIndex>>, <<b, pageIndex>>,
                         pauseAutoReload)
  /\ sub' = RealtimeEffect(sub, <<barberId, pauseAutoReload>>,
                           <<b, pauseAutoReload>>, pageIndex)

(* setBarberId(b) in a render that holds another barberId, and the        *)
(* effects that run again: the poll effect calls loadSlots(false) and sets *)
(* its interval, the refresh effect calls loadSlots(true)                  *)
BarberIdSet(b, pending) ==
  /\ setBarberId(b)
  /\ runs' = pending (+) PollEffectCalls(b, pageIndex)
                      (+) RefreshEffectCalls(refreshTrigger, b, pageIndex)
  /\ PollEffectCall(b, showSkeleton)
  /\ ev' = Ev("setBarberId", "load", EffectLoads(refreshTrigger, b), <<b>>)

(* The barberId prop changes (effect with deps [propBarberId]).  With a    *)
(* value the effect calls setBarberId(propBarberId), which changes nothing *)
(* when barberId holds that value already.  When the parent stops passing  *)
(* the prop, barberId stays as it is and getBarberId is called.            *)
ChangeProvider ==
  \E p \in (Barbers \cup {Null}) \ {propBarberId} :
    /\ Tick
    /\ mounted
    /\ propBarberId' = p
    /\ IF p = Null
         THEN /\ runs' = runs (+) getBarberId
              /\ ev' = Ev("getBarberId",
                          IF sessionToken = NoToken THEN "noToken" ELSE "verify", 0, <<p>>)
              /\ UNCHANGED <<storeVars, barberId, poll, sub, skeletonVars>>
         ELSE IF p = barberId
           THEN /\ ev' = Ev("setBarberId", "same", 0, <<p>>)
                /\ UNCHANGED <<storeVars, barberId, poll, sub, runs, skeletonVars>>
           ELSE BarberIdSet(p, runs)
    /\ UNCHANGED <<refreshTrigger, clock, mounted, sessionToken, weekSchedule, pageIndex,
                   editingSlot, pauseAutoReload, formVars, isQuickSetupProcessing, faults>>

(* verify-session answers getBarberId: for a valid session of a barber     *)
(* setBarberId(data.userId); an answer with an error status, an invalid    *)
(* session or a request that throws leaves barberId as it is               *)
verifySessionResponse ==
  \E r \in Pending, valid \in BOOLEAN :
    /\ r.phase = "verify"
    /\ Outcome(valid)
    /\ IF valid /\ mounted /\ r.token # barberId
         THEN BarberIdSet(r.token, runs (-) One(r))
         ELSE /\ runs' = runs (-) One(r)
              /\ ev' = Ev("getBarberId", IF valid THEN "same" ELSE "invalid", 0, <<r.token>>)
              /\ UNCHANGED <<storeVars, barberId, poll, sub, skeletonVars>>
    /\ UNCHANGED <<propBarberId, refreshTrigger, clock, mounted, sessionToken, weekSchedule,
                   pageIndex, editingSlot, pauseAutoReload, formVars,
                   isQuickSetupProcessing, steps>>

(* the view is torn down: the cleanups of both effects run; a response    *)
(* that arrives later finds no component to update                         *)
Unmount ==
  /\ Tick
  /\ mounted
  /\ mounted' = FALSE
  /\ poll' = {}
  /\ sub' = {}
  /\ ev' = Ev("unmount", "ok", 0, NoArg)
  /\ UNCHANGED <<storeVars, propBarberId, barberId, refreshTrigger, clock, sessionToken, weekSchedule,
                 pageIndex, editingSlot, pauseAutoReload, formVars,
                 isQuickSetupProcessing, runs, skeletonVars, faults>>

(* the user logs out in another tab, or logs in again *)
Logout ==
  /\ Tick
  /\ sessionToken # NoToken
  /\ sessionToken' = NoToken
  /\ ev' = Ev("logout", "ok", 0, NoArg)
  /\ UNCHANGED <<storeVars, propBarberId, barberId, refreshTrigger, clock, mounted, weekSchedule,
                 pageIndex, editVars, formVars, isQuickSetupProcessing, poll, runs,
                 skeletonVars, faults>>

Login ==
  \E user \in Barbers :
    /\ Tick
    /\ sessionToken = NoToken
    /\ sessionToken' = user
    /\ ev' = Ev("login", "ok", 0, <<user>>)
    /\ UNCHANGED <<storeVars, propBarberId, barberId, refreshTrigger, clock, mounted, weekSchedule,
                   pageIndex, editVars, formVars, isQuickSetupProcessing, poll, runs,
                   skeletonVars, faults>>

(* ----------------------------- navigation ----------------------------- *)
GoToPage(newPage) ==
  /\ Tick
  /\ mounted
  /\ ~ModalOpen
  /\ newPage # pageIndex
  /\ pageIndex' = newPage
  /\ poll' = PollEffect(poll, <<barberId, pageIndex>>, <<barberId, newPage>>,
                         pauseAutoReload)
  /\ runs' = runs (+) PollEffectCalls(barberId, newPage)
  /\ PollEffectCall(barberId, showSkeleton)
  /\ ev' = Ev("setPageIndex", "load", PollEffectLoads(barberId), NoArg)
  /\ UNCHANGED <<storeVars, propVars, weekSchedule, editVars, formVars,
                 isQuickSetupProcessing, faults>>

NextPage_notDisabled == GoToPage(pageIndex + 1)

NextPage ==
  /\ ~(pageIndex >= MAX_PAGES - 1)
  /\ GoToPage(pageIndex + 1)

PrevPage ==
  /\ pageIndex # 0
  /\ GoToPage(IF pageIndex - 1 > 0 THEN pageIndex - 1 ELSE 0)

(* ----------------------------- environment ---------------------------- *)
(* a customer books an open slot *)
ExternalBook ==
  \E r \in dbSlots :
    /\ Tick
    /\ ~r.booked
    /\ dbSlots' = (dbSlots \ {r}) \cup {[r EXCEPT !.booked = TRUE]}
    /\ ev' = Ev("externalBook", "ok", 0, <<r.id>>)
    /\ UNCHANGED <<workingDays, otherStore, workingDaysNull, propVars, weekSchedule,
                   pageIndex, editVars, formVars, isQuickSetupProcessing, poll, runs,
                   skeletonVars, faults>>

(* ---------------------------- skeleton timers ------------------------- *)
(* the 800 ms timer set first fires ahead of the next tick of the interval *)
(* (the timers set before it have fired): setShowSkeleton(true)            *)
skeletonTimerFired ==
  /\ Tick
  /\ skeletonTimers # <<>>
  /\ Head(skeletonTimers).shows
  /\ skeletonTimers' = Tail(skeletonTimers)
  /\ showSkeleton' = SetState(TRUE, showSkeleton)
  /\ ev' = Ev("skeletonTimer", "shown", 0, NoArg)
  /\ UNCHANGED <<storeVars, propVars, weekSchedule, pageIndex, editVars, formVars,
                 isQuickSetupProcessing, poll, runs, faults>>

(* the 300 ms timer set first fires, ahead of the 800 ms timers set before *)
(* it that have more than 300 ms to go: setShowSkeleton(false)             *)
hideTimerFired ==
  \E i \in 1..Len(skeletonTimers) :
    /\ Tick
    /\ ~skeletonTimers[i].shows
    /\ \A k \in 1..(i - 1) : skeletonTimers[k].shows
    /\ skeletonTimers' = SubSeq(skeletonTimers, 1, i - 1)
                           \o SubSeq(skeletonTimers, i + 1, Len(skeletonTimers))
    /\ showSkeleton' = SetState(FALSE, showSkeleton)
    /\ ev' = Ev("skeletonTimer", "hidden", 0, NoArg)
    /\ UNCHANGED <<storeVars, propVars, weekSchedule, pageIndex, editVars, formVars,
                   isQuickSetupProcessing, poll, runs, faults>>

(* ----------------------------- slot store ----------------------------- *)
RowsOn(rows, date) == {r \in rows : r.date = date}

(* POST /barber/slots *)
ServerCreate(rows, id, payload) ==
  rows \cup {[id |-> id, date |-> payload.slot_date,
              start |-> normalizeTime(payload.start_time),
              end |-> normalizeTime(payload.end_time), booked |-> FALSE]}

(* PUT and DELETE /barber/slots/:id re-check the row on the server *)
ServerCheck_trustClient(rows, id) ==
  IF ~(\E r \in rows : r.id = id) THEN "notFound" ELSE "ok"

ServerCheck(rows, id) ==
  IF ~(\E r \in rows : r.id = id) THEN "notFound"
  ELSE IF \E r \in rows : r.id = id /\ r.booked THEN "conflict"
  ELSE "ok"

ServerUpdate(rows, id, fields) ==
  {IF r.id = id
     THEN [r EXCEPT !.start = normalizeTime(fields.start_time),
                    !.end = normalizeTime(fields.end_time)]
     ELSE r : r \in rows}

ServerDelete(rows, id) == {r \in rows : r.id # id}

(* supabase.from('barber_slots').delete().eq(barber_id).eq(slot_date) *)
DeleteByDate(rows, date) == {r \in rows : r.date # date}

(* select start_time ... order(start_time, descending).limit(1) *)
LatestStart(rows, date) ==
  LET R == RowsOn(rows, date)
  IN  (CHOOSE r \in R : \A q \in R : Minutes(q.start) <= Minutes(r.start)).start

(* the ids of S in ascending order *)
IdSeq(S) ==
  [i \in 1..Cardinality(S) |->
     CHOOSE x \in S : Cardinality({y \in S : y < x}) = i - 1]

(* POST /barber/slots/batch: delete the date range, insert the new rows *)
ServerBatch_deleteOnly(rows, range, payload, ids) ==
  {r \in rows : ~(range.from <= r.date /\ r.date <= range.to)}

ServerBatch(rows, range, payload, ids) ==
  {r \in rows : ~(range.from <= r.date /\ r.date <= range.to)}
    \cup {[id |-> ids[i], date |-> payload[i].slot_date,
           start |-> normalizeTime(payload[i].start_time),
           end |-> normalizeTime(payload[i].end_time),
           booked |-> FALSE] : i \in 1..Len(payload)}

(* --------------------------- conflict checker ------------------------- *)
isDuplicateTime_never(ws, dayIndex, time, excludeSlotId) == FALSE

isDuplicateTime_ownSlotCounted(ws, dayIndex, time, excludeSlotId) ==
  IF dayIndex + 1 \in DOMAIN ws
    THEN \E i \in 1..Len(ws[dayIndex + 1].slots) : ws[dayIndex + 1].slots[i].time = time
    ELSE FALSE

isDuplicateTime(ws, dayIndex, time, excludeSlotId) ==
  IF dayIndex + 1 \in DOMAIN ws
    THEN \E i \in 1..Len(ws[dayIndex + 1].slots) :
           /\ ws[dayIndex + 1].slots[i].time = time
           /\ ws[dayIndex + 1].slots[i].id # excludeSlotId
    ELSE FALSE

(* --------------------------- what is rendered ------------------------- *)
(* the day cards are rendered unless the skeleton is *)
DayCardShown(d) == HasDay(d) /\ ~showSkeleton

SlotRendered(d, s) ==
  /\ DayCardShown(d)
  /\ ~weekSchedule[d + 1].isOff
  /\ s \in DaySlots(d)

EditFormShown(d, s) ==
  /\ SlotRendered(d, s)
  /\ editingSlot = [dayIndex |-> d, slotId |-> s.id]
  /\ ~s.booked

SlotButtonsShown(d, s) ==
  /\ SlotRendered(d, s)
  /\ ~(editingSlot = [dayIndex |-> d, slotId |-> s.id])
  /\ ~s.booked

SetDay(ws, d, day) == [ws EXCEPT ![d + 1] = day]

RECURSIVE InsertByTime(_, _)
InsertByTime(s, x) ==
  IF s = <<>> THEN <<x>>
  ELSE IF Minutes(x.time) < Minutes(Head(s).time) THEN <<x>> \o s
  ELSE <<Head(s)>> \o InsertByTime(Tail(s), x)

RECURSIVE StableSortByTime(_)
StableSortByTime(s) ==
  IF s = <<>> THEN <<>>
  ELSE InsertByTime(StableSortByTime(SubSeq(s, 1, Len(s) - 1)), s[Len(s)])

(* -------------------------- working-day state ------------------------- *)
(* updateWorkingDayState reads the session token and returns at once when  *)
(* there is none.  Else it reads the whole entry (GET), changes the flag   *)
(* of its date in what it read and writes the whole entry back (PUT); a    *)
(* refused PUT is logged and the call returns as after a stored one.  A    *)
(* GET that throws (no answer from the network) is caught and logged: no   *)
(* PUT is sent and the call returns in the same way.                       *)
WorkingDaysData(workingDaysData, date, isWorkingDay) ==
  IF isWorkingDay THEN workingDaysData \cup {date} ELSE workingDaysData \ {date}

UpdateGetOutcomes == {"ok", "notOk", "threw"}

(* the GET is answered: with an error status workingDaysData stays empty   *)
(* and the call goes on                                                    *)
KvGet(r, wd, kvGet) ==
  [r EXCEPT !.phase = "put", !.got = kvGet,
            !.data = WorkingDaysData(IF kvGet = "ok" THEN wd ELSE {}, r.date,
                                     r.isWorkingDay),
            !.fails = r.fails \cup (IF kvGet = "ok" THEN {} ELSE {"getNotOk"})]

(* the PUT is answered: with an error status nothing was written *)
KvPutOutcomes == {"ok", "putFailed"}

KvPut(r, wd, kvPut) == IF kvPut = "ok" THEN r.data ELSE wd

(* setWeekSchedule(prev => ...) at the end of a toggleDayOff run *)
DayToggled(ws, dayIndex, newIsOff) ==
  IF dayIndex + 1 \in DOMAIN ws
    THEN SetDay(ws, dayIndex,
           IF newIsOff THEN [ws[dayIndex + 1] EXCEPT !.isOff = TRUE, !.slots = <<>>]
                       ELSE [ws[dayIndex + 1] EXCEPT !.isOff = FALSE])
    ELSE ws

(* the loop of a batch setup calls updateWorkingDayState for its next date *)
NextCall(r) ==
  [r EXCEPT !.phase = "get", !.date = Head(r.rest), !.rest = Tail(r.rest),
            !.got = "none", !.data = {}]

(* the loop of a clear deletes the rows of its next date *)
NextDelete(r) ==
  [r EXCEPT !.phase = "delete", !.date = Head(r.rest), !.rest = Tail(r.rest),
            !.got = "none", !.data = {}]

(* the input of a step of run r after which the run goes on *)
RunArg(r) == <<r.via, r.q, r.kind, r.date, r.day>>

(* updateWorkingDayState has returned to run r (kv: "ok" or "putFailed"    *)
(* for its PUT, "noToken" when it made no request, "getThrew" when its GET *)
(* threw) and the caller goes on: toggleDayOff updates the day and reports *)
(* success; the loop of a batch setup or of a clear takes its next date,   *)
(* or ends with the toast and await loadSlots()                            *)
AfterUpdate(r, kv, op) ==
  LET r2 == [r EXCEPT !.fails = r.fails \cup (IF kv = "ok" THEN {} ELSE {kv})]
  IN  IF r.kind = "toggle"
        THEN /\ weekSchedule' = SetState(DayToggled(weekSchedule, r.day, ~r.isWorkingDay),
                                         weekSchedule)
             /\ Returned(r)
             /\ ev' = Ev("toggleDayOff", IF r.isWorkingDay THEN "on" ELSE "off", 0,
                         <<r.day, r.date, kv # "noToken",
                           IF kv \in {"noToken", "getThrew"} THEN "none" ELSE kv,
                           IF kv = "getThrew" THEN "threw" ELSE r.got>>)
      ELSE IF r.kind = "setup"
        THEN /\ UNCHANGED weekSchedule
             /\ IF r.rest = <<>>
                  THEN /\ EndWithLoad(r)
                       /\ ev' = Ev("executeQuickSetup", "ok", 1, <<r.via, r.q, r2.fails>>)
                  ELSE IF sessionToken # NoToken
                    THEN /\ Suspended(r, NextCall(r2))
                         /\ ev' = Ev(op, kv, 0, RunArg(r))
                    ELSE /\ EndWithLoad(r)
                         /\ ev' = Ev("executeQuickSetup", "ok", 1,
                                     <<r.via, r.q, r2.fails \cup {"noToken"}>>)
      ELSE /\ UNCHANGED weekSchedule
           /\ IF r.rest = <<>>
                THEN /\ EndWithLoad(r)
                     /\ ev' = Ev("handleQuickSetupClear", "ok", 1, <<r2.fails>>)
                ELSE /\ Suspended(r, NextDelete(r2))
                     /\ ev' = Ev(op, kv, 0, RunArg(r))

(* ---------------------------- toggleDayOff ---------------------------- *)
(* The click: the direction comes from the day as the client holds it.     *)
(* For "off" the delete of the date's rows is sent; for "on"               *)
(* updateWorkingDayState is called, which without a session token returns  *)
(* at once, and the day is updated.                                        *)
toggleDayOff ==
  \E dayIndex \in InputDays :
    /\ HandlerStep
    /\ ~ModalOpen
    /\ DayCardShown(dayIndex)
    /\ LET newIsOff == ~weekSchedule[dayIndex + 1].isOff
           slotDate == getActualDate(dayIndex, pageIndex)
           r == [Run("toggle", "press", barberId, pageIndex)
                   EXCEPT !.day = dayIndex, !.date = slotDate, !.isWorkingDay = ~newIsOff]
           request == IF newIsOff THEN "delete" ELSE "get"
       IN  IF newIsOff \/ sessionToken # NoToken
             THEN /\ runs' = runs (+) One([r EXCEPT !.phase = request])
                  /\ ev' = Ev("toggleDayOffCall", request, 0, <<dayIndex, slotDate>>)
                  /\ UNCHANGED <<weekSchedule, timePickerDayIndex, isQuickSetupProcessing>>
             ELSE AfterUpdate(r, "noToken", "toggleDayOffCall")
    /\ UNCHANGED <<pageIndex, editVars, showTimePickerModal, quickSetup, poll, faults>>

(* the delete of the rows of a date is answered (toggleDayOff, and each    *)
(* round of the loop of a clear); then updateWorkingDayState is called     *)
deleteByDateResponse ==
  \E r \in Pending, ok \in BOOLEAN :
    /\ r.phase = "delete"
    /\ Outcome(ok)
    /\ IF ~ok
         THEN /\ UNCHANGED <<storeVars, weekSchedule>>
              /\ IF r.kind = "toggle"
                   THEN /\ Returned(r)
                        /\ ev' = Ev("toggleDayOff", "error", 0,
                                    <<r.day, r.date, TRUE, "none", "none">>)
                   ELSE /\ EndWithLoad(r)
                        /\ ev' = Ev("handleQuickSetupClear", "error", 1, <<r.fails>>)
         ELSE /\ PutStore(r.barber,
                          [StoreOf(r.barber) EXCEPT
                             !.rows = DeleteByDate(StoreOf(r.barber).rows, r.date)])
              /\ IF sessionToken # NoToken
                   THEN /\ Suspended(r, [r EXCEPT !.phase = "get"])
                        /\ ev' = Ev("deleteByDateResponse", "ok", 0, RunArg(r))
                        /\ UNCHANGED weekSchedule
                   ELSE AfterUpdate(r, "noToken", "deleteByDateResponse")
    /\ UNCHANGED <<editVars, respFrame>>

(* the GET of updateWorkingDayState is answered and the PUT is sent; when  *)
(* the GET throws, updateWorkingDayState returns without a PUT             *)
kvGetResponse ==
  \E r \in Pending, kvGet \in UpdateGetOutcomes :
    /\ r.phase = "get"
    /\ Outcome(kvGet = "ok")
    /\ IF kvGet = "threw"
         THEN AfterUpdate(r, "getThrew", "kvGetResponse")
         ELSE /\ Suspended(r, KvGet(r, StoreOf(r.barber).wd, kvGet))
              /\ ev' = Ev("kvGetResponse", kvGet, 0, RunArg(r))
              /\ UNCHANGED weekSchedule
    /\ UNCHANGED <<storeVars, editVars, respFrame>>

(* the PUT is answered and updateWorkingDayState returns *)
kvSetResponse ==
  \E r \in Pending, kvPut \in KvPutOutcomes :
    /\ r.phase = "put"
    /\ Outcome(kvPut = "ok")
    /\ PutStore(r.barber,
                [StoreOf(r.barber) EXCEPT !.wd = KvPut(r, StoreOf(r.barber).wd, kvPut)])
    /\ AfterUpdate(r, kvPut, "kvSetResponse")
    /\ UNCHANGED <<editVars, respFrame>>

(* ------------------------- add slot (single) -------------------------- *)
(* the checks of instantAddTimeSlot before its request *)
AddOutcomeAt(slotDate, slotTime) ==
  IF slotDate < Today THEN "pastDate"
  ELSE IF slotDate = Today /\ Minutes(slotTime) <= Now THEN "pastTime"
  ELSE IF sessionToken = NoToken THEN "noToken"
  ELSE "post"

AddPayloadAt(slotDate, slotTime) ==
  [slot_date |-> slotDate,
   start_time |-> normalizeTime(slotTime),
   end_time |-> normalizeTime(calculateEndTime(slotTime))]

(* instantAddTimeSlot called by run r, up to its request *)
instantAddTimeSlot(r, slotTime) ==
  LET res == AddOutcomeAt(r.date, slotTime)
  IN  IF res = "post"
        THEN /\ Suspended(r, [r EXCEPT !.phase = "post", !.time = slotTime,
                                       !.token = sessionToken])
             /\ ev' = Ev("instantAddTimeSlotCall", "post", 0, <<r.date, slotTime, r.day>>)
        ELSE /\ Returned(r)
             /\ ev' = Ev("addSlot", res, 0, <<r.date, slotTime, r.day>>)

(* the start time of the automatic add: latest stored start + 30 minutes  *)
NextSlotTime(latestStart) == FormatHM(Minutes(latestStart) + NEXT_SLOT_STEP)

AddRun(via, dayIndex) ==
  [Run("add", "press", barberId, pageIndex)
     EXCEPT !.via = via, !.day = dayIndex, !.date = getActualDate(dayIndex, pageIndex),
            !.ws = weekSchedule]

(* the "+" button of a day: for a day without slots the time picker opens, *)
(* else the latest start of the date is asked for                          *)
openAddSlotDialog ==
  \E dayIndex \in InputDays :
    /\ HandlerStep
    /\ ~ModalOpen
    /\ DayCardShown(dayIndex)
    /\ ~weekSchedule[dayIndex + 1].isOff
    /\ IF DaySlots(dayIndex) = {}
         THEN /\ timePickerDayIndex' = dayIndex
              /\ showTimePickerModal' = TRUE
              /\ ev' = Ev("openAddSlotDialog", "modal", 0, NoArg)
              /\ UNCHANGED runs
         ELSE /\ runs' = runs (+) One([AddRun("auto", dayIndex) EXCEPT !.phase = "latest"])
              /\ ev' = Ev("openAddSlotDialogCall", "query", 0,
                          <<getActualDate(dayIndex, pageIndex), EmptyTime, dayIndex>>)
              /\ UNCHANGED pickerVars
    /\ UNCHANGED <<weekSchedule, pageIndex, editVars, quickSetup, isQuickSetupProcessing,
                   poll, faults>>

(* the query for the latest start of the date is answered *)
latestSlotsResponse ==
  \E r \in Pending, ok \in BOOLEAN :
    /\ r.phase = "latest"
    /\ Outcome(ok)
    /\ LET rows == StoreOf(r.barber).rows
           nextTime == NextSlotTime(LatestStart(rows, r.date))
       IN  IF ~ok \/ RowsOn(rows, r.date) = {}
             THEN /\ Returned(r)
                  /\ ev' = Ev("openAddSlotDialog", IF ok THEN "noLatest" ELSE "error", 0,
                              NoArg)
             ELSE IF isDuplicateTime(r.ws, r.day, nextTime, 0)
               THEN /\ Returned(r)
                    /\ ev' = Ev("openAddSlotDialog", "dup", 0, NoArg)
               ELSE instantAddTimeSlot(r, nextTime)
    /\ UNCHANGED <<storeVars, weekSchedule, editVars, respFrame>>

(* Confirm button of the time picker; the picker state is reset when       *)
(* instantAddTimeSlot has returned                                         *)
handleTimePickerConfirm ==
  \E selectedStartTime \in InputTimes \cup {EmptyTime} :
    /\ HandlerStep
    /\ showTimePickerModal
    /\ IF selectedStartTime = EmptyTime \/ timePickerDayIndex = NoDay
         THEN /\ ev' = Ev("handleTimePickerConfirm", "noTime", 0, NoArg)
              /\ UNCHANGED <<pickerVars, runs, isQuickSetupProcessing>>
         ELSE IF isDuplicateTime(weekSchedule, timePickerDayIndex, selectedStartTime, 0)
           THEN /\ ev' = Ev("handleTimePickerConfirm", "dup", 0, NoArg)
                /\ UNCHANGED <<pickerVars, runs, isQuickSetupProcessing>>
           ELSE /\ showTimePickerModal' = FALSE
                /\ instantAddTimeSlot(AddRun("picker", timePickerDayIndex),
                                      selectedStartTime)
    /\ UNCHANGED <<weekSchedule, pageIndex, editVars, quickSetup, poll, faults>>

handleTimePickerCancel ==
  /\ HandlerStep
  /\ showTimePickerModal
  /\ showTimePickerModal' = FALSE
  /\ timePickerDayIndex' = NoDay
  /\ ev' = Ev("handleTimePickerCancel", "ok", 0, NoArg)
  /\ UNCHANGED <<weekSchedule, pageIndex, editVars, quickSetup, isQuickSetupProcessing,
                 poll, runs, faults>>

(* the dialog is dismissed (onOpenChange): only the modal flag is cleared *)
dismissTimePicker ==
  /\ HandlerStep
  /\ showTimePickerModal
  /\ showTimePickerModal' = FALSE
  /\ ev' = Ev("dismissTimePicker", "ok", 0, NoArg)
  /\ UNCHANGED <<weekSchedule, pageIndex, editVars, timePickerDayIndex, quickSetup,
                 isQuickSetupProcessing, poll, runs, faults>>

(* the POST is answered; on success the handler ends with await loadSlots() *)
addSlotResponse ==
  \E r \in Pending, srvOk \in BOOLEAN :
    /\ r.phase = "post"
    /\ Outcome(srvOk)
    /\ IF srvOk
         THEN /\ FreeIds # {}
              /\ PutStore(r.token,
                          [StoreOf(r.token) EXCEPT
                             !.rows = ServerCreate(StoreOf(r.token).rows, IdSeq(FreeIds)[1],
                                                   AddPayloadAt(r.date, r.time))])
              /\ EndWithLoad(r)
              /\ ev' = Ev("addSlot", "ok", 1, <<r.date, r.time, r.day>>)
         ELSE /\ UNCHANGED storeVars
              /\ Returned(r)
              /\ ev' = Ev("addSlot", "error", 0, <<r.date, r.time, r.day>>)
    /\ UNCHANGED <<weekSchedule, editVars, respFrame>>

(* ------------------------------ delete slot --------------------------- *)
(* the delete button of a slot, up to the request *)
removeTimeSlot ==
  \E dayIndex \in InputDays :
    \E s \in DaySlots(dayIndex) :
      /\ HandlerStep
      /\ ~ModalOpen
      /\ SlotButtonsShown(dayIndex, s)
      /\ IF sessionToken = NoToken
           THEN /\ ev' = Ev("removeTimeSlot", "noToken", 0, <<s.id>>)
                /\ UNCHANGED runs
           ELSE /\ runs' = runs (+) One([Run("remove", "remove", barberId, pageIndex)
                                           EXCEPT !.day = dayIndex, !.id = s.id,
                                                  !.token = sessionToken])
                /\ ev' = Ev("removeTimeSlotCall", "sent", 0, <<s.id>>)
      /\ UNCHANGED <<weekSchedule, pageIndex, editVars, formVars, isQuickSetupProcessing,
                     poll, faults>>

(* setWeekSchedule(prev => ...) after an accepted delete *)
SlotRemoved(ws, dayIndex, slotId) ==
  IF dayIndex + 1 \in DOMAIN ws
    THEN SetDay(ws, dayIndex,
           [ws[dayIndex + 1] EXCEPT !.slots =
              SelectSeq(ws[dayIndex + 1].slots, LAMBDA x : x.id # slotId)])
    ELSE ws

(* the DELETE is answered; on success the slot is taken out of the day and *)
(* the handler ends with await loadSlots()                                 *)
removeSlotResponse ==
  \E r \in Pending, srvOk \in BOOLEAN :
    /\ r.phase = "remove"
    /\ Outcome(srvOk)
    /\ LET rows == StoreOf(r.token).rows
           res == IF ~srvOk THEN "error" ELSE ServerCheck(rows, r.id)
       IN  IF res = "ok"
             THEN /\ PutStore(r.token,
                              [StoreOf(r.token) EXCEPT !.rows = ServerDelete(rows, r.id)])
                  /\ weekSchedule' = SetState(SlotRemoved(weekSchedule, r.day, r.id),
                                              weekSchedule)
                  /\ EndWithLoad(r)
                  /\ ev' = Ev("removeTimeSlot", "ok", 1, <<r.id>>)
             ELSE /\ UNCHANGED <<storeVars, weekSchedule>>
                  /\ Returned(r)
                  /\ ev' = Ev("removeTimeSlot", res, 0, <<r.id>>)
    /\ UNCHANGED <<editVars, respFrame>>

(* ------------------------------ edit slot ----------------------------- *)
startEditingSlot ==
  \E dayIndex \in InputDays :
    \E s \in DaySlots(dayIndex) :
      /\ HandlerStep
      /\ ~ModalOpen
      /\ SlotButtonsShown(dayIndex, s)
      /\ editingSlot' = [dayIndex |-> dayIndex, slotId |-> s.id]
      /\ pauseAutoReload' = TRUE
      /\ sub' = RealtimeEffect(sub, <<barberId, pauseAutoReload>>, <<barberId, TRUE>>,
                               pageIndex)
      /\ ev' = Ev("startEditingSlot", "ok", 0, <<s.id>>)
      /\ UNCHANGED <<weekSchedule, pageIndex, formVars, isQuickSetupProcessing, poll,
                     runs, faults>>

EditFormOpen ==
  \E d \in 0..(DAYS_PER_PAGE - 1) : \E s \in DaySlots(d) : EditFormShown(d, s)

cancelEditingSlot ==
  /\ HandlerStep
  /\ ~ModalOpen
  /\ EditFormOpen
  /\ editingSlot' = NoEdit
  /\ pauseAutoReload' = FALSE
  /\ sub' = RealtimeEffect(sub, <<barberId, pauseAutoReload>>, <<barberId, FALSE>>,
                           pageIndex)
  /\ ev' = Ev("cancelEditingSlot", "ok", 0, NoArg)
  /\ UNCHANGED <<weekSchedule, pageIndex, formVars, isQuickSetupProcessing, poll,
                 runs, faults>>

EditPayload(editingTime) ==
  [start_time |-> editingTime, end_time |-> calculateEndTime(editingTime)]

(* pauseAutoReload when saveTimeSlot returns: the duplicate check returns  *)
(* before anything is touched, every other path calls setPauseAutoReload   *)
PauseAfterSave_keptOnFailure(res) == IF res = "ok" THEN FALSE ELSE pauseAutoReload

PauseAfterSave(res) == IF res = "dup" THEN pauseAutoReload ELSE FALSE

(* the Save button of the edit form, up to the request: the form stays     *)
(* open while the PUT is pending                                           *)
saveTimeSlot ==
  \E editingTime \in InputTimes :
    /\ HandlerStep
    /\ ~ModalOpen
    /\ EditFormOpen
    /\ LET res == IF isDuplicateTime(weekSchedule, editingSlot.dayIndex, editingTime,
                                     editingSlot.slotId) THEN "dup"
                  ELSE IF sessionToken = NoToken THEN "noToken"
                  ELSE "sent"
       IN  /\ IF res = "sent"
                THEN /\ runs' = runs (+) One([Run("save", "update", barberId, pageIndex)
                                                EXCEPT !.day = editingSlot.dayIndex,
                                                       !.id = editingSlot.slotId,
                                                       !.time = editingTime,
                                                       !.token = sessionToken])
                     /\ UNCHANGED pauseAutoReload
                     /\ ev' = Ev("saveTimeSlotCall", "sent", 0,
                                 <<editingSlot.slotId, editingTime>>)
                ELSE /\ UNCHANGED runs
                     /\ pauseAutoReload' = PauseAfterSave(res)
                     /\ ev' = Ev("saveTimeSlot", res, 0, <<editingSlot.slotId, editingTime>>)
           /\ sub' = RealtimeEffect(sub, <<barberId, pauseAutoReload>>,
                                    <<barberId, pauseAutoReload'>>, pageIndex)
    /\ UNCHANGED <<weekSchedule, pageIndex, editingSlot, formVars, isQuickSetupProcessing,
                   poll, faults>>

(* setWeekSchedule(prev => ...) after an accepted update *)
SlotRetimed(ws, dayIndex, slotId, time) ==
  IF dayIndex + 1 \in DOMAIN ws
    THEN SetDay(ws, dayIndex,
           [ws[dayIndex + 1] EXCEPT !.slots = StableSortByTime(
              [i \in 1..Len(ws[dayIndex + 1].slots) |->
                 IF ws[dayIndex + 1].slots[i].id = slotId
                   THEN [ws[dayIndex + 1].slots[i] EXCEPT !.time = time]
                   ELSE ws[dayIndex + 1].slots[i]])])
    ELSE ws

(* The PUT is answered.  Accepted: the slot of the run is given its new    *)
(* time and cancelEditingSlot() closes the edit that is open by then.      *)
(* Refused: setPauseAutoReload(false).                                     *)
saveSlotResponse ==
  \E r \in Pending, srvOk \in BOOLEAN :
    /\ r.phase = "update"
    /\ Outcome(srvOk)
    /\ LET rows == StoreOf(r.token).rows
           res == IF ~srvOk THEN "error" ELSE ServerCheck(rows, r.id)
       IN  /\ IF res = "ok"
                THEN /\ PutStore(r.token,
                                 [StoreOf(r.token) EXCEPT
                                    !.rows = ServerUpdate(rows, r.id, EditPayload(r.time))])
                     /\ weekSchedule' = SetState(SlotRetimed(weekSchedule, r.day, r.id, r.time),
                                                 weekSchedule)
                     /\ editingSlot' = SetState(NoEdit, editingSlot)
                ELSE UNCHANGED <<storeVars, weekSchedule, editingSlot>>
           /\ pauseAutoReload' = SetState(PauseAfterSave(res), pauseAutoReload)
           /\ ev' = Ev("saveTimeSlot", res, 0, <<r.id, r.time>>)
    /\ sub' = RealtimeEffect(sub, <<barberId, pauseAutoReload>>,
                             <<barberId, pauseAutoReload'>>, pageIndex)
    /\ Returned(r)
    /\ UNCHANGED respFrame

(* ------------------------- functions on their own --------------------- *)
(* what a call of a function changes: nothing but the record of the call   *)
callFrame == <<storeVars, propVars, pageIndex, editVars, formVars,
               isQuickSetupProcessing, poll, runs, skeletonVars, steps, faults>>

(* a call of the checker on the schedule as loaded, with a time as its     *)
(* callers pass it: the value of a time input or the HH:MM the automatic   *)
(* add has formatted                                                       *)
DuplicateCheckTimes == {<<9, 0>>, <<10, 0>>, <<10, 30>>}

DuplicateCheck ==
  \E dayIndex \in 0..(DAYS_PER_PAGE - 1), time \in DuplicateCheckTimes,
     excludeSlotId \in {0} \cup LocalIds :
    /\ HasDay(dayIndex)
    /\ ev' = Ev("isDuplicateTime", "ok", 0,
                <<dayIndex, time, excludeSlotId,
                  isDuplicateTime(weekSchedule, dayIndex, time, excludeSlotId)>>)
    /\ UNCHANGED <<callFrame, weekSchedule>>

(* the times a single add and an edit put into their request, for start    *)
(* times over the whole day                                                *)
EndTimeInputs == {<<h, m>> : h \in 0..23, m \in {0, 30, 59}}

EndTimeOf ==
  \E startTime \in EndTimeInputs, op \in {"add", "edit"} :
    /\ ev' = Ev("endTime", op, 0,
                <<startTime,
                  IF op = "add" THEN AddPayloadAt(Today, startTime).end_time
                                ELSE EditPayload(startTime).end_time>>)
    /\ UNCHANGED <<callFrame, weekSchedule>>

(* a load in a time zone whose clocks go forward, or back, today or on the *)
(* fifth day from today: where the schedule shows a stored row of a date   *)
PlaceRows ==
  \E c \in ClockChanges, pageIdx \in 0..(MAX_PAGES - 1),
     date \in Today..(Today + MAX_PAGES * DAYS_PER_PAGE - 1) :
    /\ \E data \in ResponseOrders(c, pageIdx,
                                   WindowRows({Row(1, date, <<10, 0>>, FALSE)}, pageIdx)) :
         weekSchedule' = BuildSchedule(c, pageIdx, data, {date})
    /\ ev' = Ev("placeRows", "ok", 0, <<c, pageIdx, date>>)
    /\ UNCHANGED callFrame

(* the start time the automatic add computes, for a latest stored start   *)
(* anywhere in the day                                                     *)
LatestStartInputs == {normalizeTime(t) : t \in EndTimeInputs}

NextTimeOf ==
  \E latestStart \in LatestStartInputs :
    /\ ev' = Ev("nextTime", "ok", 0, <<latestStart, NextSlotTime(latestStart)>>)
    /\ UNCHANGED <<callFrame, weekSchedule>>

(* ----------------------------- quick setup ---------------------------- *)
validateQuickSetup_durationOnly(q) == q.duration > 0

validateQuickSetup(q) ==
  IF Minutes(q.from) >= Minutes(q.to) THEN FALSE
  ELSE IF q.duration <= 0 THEN FALSE
  ELSE TRUE

RECURSIVE GenerateFrom_exclusive(_, _, _)
GenerateFrom_exclusive(currentMinutes, toMinutes, duration) ==
  IF currentMinutes + duration < toMinutes
    THEN <<FormatHM(currentMinutes)>>
           \o GenerateFrom_exclusive(currentMinutes + duration, toMinutes, duration)
    ELSE <<>>

RECURSIVE GenerateFrom(_, _, _)
GenerateFrom(currentMinutes, toMinutes, duration) ==
  IF currentMinutes + duration <= toMinutes
    THEN <<FormatHM(currentMinutes)>>
           \o GenerateFrom(currentMinutes + duration, toMinutes, duration)
    ELSE <<>>

generateTimeSlots(q) == GenerateFrom(Minutes(q.from), Minutes(q.to), q.duration)

hasExistingSlots(ws) == \E i \in 1..Len(ws) : Len(ws[i].slots) > 0

BatchEndTime(slotTime, duration) ==
  LET endMinutes == Minutes(slotTime) + duration
  IN  <<(endMinutes \div 60) % 24, endMinutes % 60>>

DayBatch_strictlyBefore(dayOffset, slotTimes, duration, currentMinutes) ==
  LET kept == SelectSeq(slotTimes,
                LAMBDA t : ~(dayOffset = 0 /\ Minutes(t) < currentMinutes))
  IN  [i \in 1..Len(kept) |->
         [slot_date |-> Today + dayOffset,
          start_time |-> normalizeTime(kept[i]),
          end_time |-> normalizeTime(BatchEndTime(kept[i], duration))]]

DayBatch(dayOffset, slotTimes, duration, currentMinutes) ==
  LET kept == SelectSeq(slotTimes,
                LAMBDA t : ~(dayOffset = 0 /\ Minutes(t) <= currentMinutes))
  IN  [i \in 1..Len(kept) |->
         [slot_date |-> Today + dayOffset,
          start_time |-> normalizeTime(kept[i]),
          end_time |-> normalizeTime(BatchEndTime(kept[i], duration))]]

RECURSIVE AllSlotsToInsert(_, _, _, _)
AllSlotsToInsert(dayOffset, slotTimes, duration, currentMinutes) ==
  IF dayOffset >= QUICK_SETUP_DAYS THEN <<>>
  ELSE DayBatch(dayOffset, slotTimes, duration, currentMinutes)
         \o AllSlotsToInsert(dayOffset + 1, slotTimes, duration, currentMinutes)

(* the rows a run for form q inserts *)
BatchPayload(q) == AllSlotsToInsert(0, generateTimeSlots(q), q.duration, Now)

workingDayUpdates == [i \in 1..QUICK_SETUP_DAYS |-> Today + i - 1]

(* the batch request is sent only for a non-empty payload *)
SendsBatch(payload) == Len(payload) > 0

(* the three buttons that start a batch operation *)
BatchButtonsDisabled == isQuickSetupProcessing

(* executeQuickSetup up to its first request: the modal is closed and the  *)
(* processing flag set; without a session token the run ends there, else   *)
(* the batch request is sent, or for an empty payload the first            *)
(* working-day call is made                                                *)
executeQuickSetup(q, via) ==
  LET r == [Run("setup", "press", barberId, pageIndex)
              EXCEPT !.q = q, !.via = via, !.isWorkingDay = TRUE,
                     !.rest = workingDayUpdates, !.token = sessionToken]
      sends == SendsBatch(BatchPayload(q))
  IN  /\ quickSetup' = NoQuickSetup
      /\ IF sessionToken = NoToken
           THEN /\ isQuickSetupProcessing' = FALSE
                /\ UNCHANGED runs
                /\ ev' = Ev("executeQuickSetup", "noToken", 0, <<via, q, {"noToken"}>>)
           ELSE /\ isQuickSetupProcessing' = TRUE
                /\ runs' = runs (+) One(IF sends THEN [r EXCEPT !.phase = "batch"]
                                                 ELSE NextCall(r))
                /\ ev' = Ev("executeQuickSetupCall", IF sends THEN "batch" ELSE "get", 0,
                            <<via, q>>)
      /\ UNCHANGED <<weekSchedule, pageIndex, editVars, pickerVars, poll, faults>>

(* "Set up" button, with the form holding q *)
handleQuickSetup ==
  \E q \in QuickSetupInputs :
    /\ HandlerStep
    /\ ~ModalOpen
    /\ ~BatchButtonsDisabled
    /\ IF ~validateQuickSetup(q)
         THEN /\ ev' = Ev("handleQuickSetup", "invalid", 0, <<"none", q>>)
              /\ UNCHANGED <<weekSchedule, pageIndex, editVars, formVars,
                             isQuickSetupProcessing, poll, runs, faults>>
         ELSE IF hasExistingSlots(weekSchedule)
           THEN /\ quickSetup' = q
                /\ ev' = Ev("handleQuickSetup", "confirm", 0, <<"none", q>>)
                /\ UNCHANGED <<weekSchedule, pageIndex, editVars, pickerVars,
                               isQuickSetupProcessing, poll, runs, faults>>
           ELSE executeQuickSetup(q, "direct")

(* "Replace" button of the confirmation modal *)
confirmQuickSetup ==
  /\ HandlerStep
  /\ showQuickSetupConfirmModal
  /\ ~BatchButtonsDisabled
  /\ executeQuickSetup(quickSetup, "confirmed")

(* "Cancel" button of the modal, or the modal dismissed *)
cancelQuickSetupConfirm ==
  /\ HandlerStep
  /\ showQuickSetupConfirmModal
  /\ quickSetup' = NoQuickSetup
  /\ ev' = Ev("cancelQuickSetupConfirm", "ok", 0, NoArg)
  /\ UNCHANGED <<weekSchedule, pageIndex, editVars, pickerVars, isQuickSetupProcessing,
                 poll, runs, faults>>

(* the batch request is answered: accepted, the rows of today..today+6     *)
(* are replaced and the loop over workingDayUpdates starts; refused, the   *)
(* catch block shows the error and ends with await loadSlots()             *)
batchResponse ==
  \E r \in Pending, srvOk \in BOOLEAN :
    /\ r.phase = "batch"
    /\ Outcome(srvOk)
    /\ LET payload == BatchPayload(r.q)
           range == [from |-> Today, to |-> Today + QUICK_SETUP_DAYS - 1]
       IN  IF srvOk
             THEN /\ Cardinality(FreeIds) >= Len(payload)
                  /\ PutStore(r.token,
                              [StoreOf(r.token) EXCEPT
                                 !.rows = ServerBatch(StoreOf(r.token).rows, range, payload,
                                                      IdSeq(FreeIds))])
                  /\ AfterUpdate(r, "ok", "batchResponse")
             ELSE /\ UNCHANGED <<storeVars, weekSchedule>>
                  /\ EndWithLoad(r)
                  /\ ev' = Ev("executeQuickSetup", "error", 1, <<r.via, r.q, r.fails>>)
    /\ UNCHANGED <<editVars, respFrame>>

(* -------------------------------- clear ------------------------------- *)
(* the optimistic update made before the first request *)
clearedSchedule(ws, pageIdx) ==
  [i \in 1..Len(ws) |->
     IF getActualDate(i - 1, pageIdx) < Today
       THEN ws[i]
       ELSE [ws[i] EXCEPT !.slots = <<>>]]

(* the dates the loop goes through: those of the viewed page, from today *)
clearDates(pageIdx) ==
  SelectSeq([i \in 1..DAYS_PER_PAGE |-> getActualDate(i - 1, pageIdx)],
            LAMBDA dateStr : dateStr >= Today)

(* "Clear" button: nothing while barberId is null; else window.confirm,    *)
(* then the optimistic update and the delete of the rows of the first date *)
handleQuickSetupClear ==
  \E confirmed \in BOOLEAN :
    /\ HandlerStep
    /\ ~ModalOpen
    /\ ~BatchButtonsDisabled
    /\ IF barberId = Null \/ ~confirmed
         THEN /\ ev' = Ev("handleQuickSetupClearCall",
                          IF barberId = Null THEN "noBarberId" ELSE "cancelled", 0, NoArg)
              /\ UNCHANGED <<weekSchedule, isQuickSetupProcessing, runs>>
         ELSE /\ weekSchedule' = clearedSchedule(weekSchedule, pageIndex)
              /\ isQuickSetupProcessing' = TRUE
              /\ runs' = runs (+) One(NextDelete([Run("clear", "press", barberId, pageIndex)
                                                    EXCEPT !.rest = clearDates(pageIndex)]))
              /\ ev' = Ev("handleQuickSetupClearCall", "delete", 0, NoArg)
    /\ UNCHANGED <<pageIndex, editVars, formVars, poll, faults>>

(* ----------------------- generation on its own ----------------------- *)
(* steps 2 and 3 of executeQuickSetup (generate the times, build the rows  *)
(* in memory) for a validated form and a clock reading                     *)
GenTimes == {<<8, 30>>, <<9, 0>>, <<10, 0>>, <<10, 45>>, <<23, 30>>}
GenDurations == {15, 30, 45, 60}
GenClocks == {9 * 60, 9 * 60 + 15, 23 * 60 + 59}

GenerateBatch ==
  \E f \in GenTimes, t \in GenTimes, dur \in GenDurations, currentMinutes \in GenClocks :
    LET q == [from |-> f, to |-> t, duration |-> dur]
        slotTimes == generateTimeSlots(q)
    IN  /\ validateQuickSetup(q)
        /\ ev' = Ev("generate", "ok", 0,
                    <<q, currentMinutes, slotTimes,
                      AllSlotsToInsert(0, slotTimes, dur, currentMinutes)>>)
        /\ UNCHANGED <<callFrame, weekSchedule>>

(* ------------------------ dates on the calendar ----------------------- *)
(* getPageStartDate and getActualDate as they work on a Date: a date is    *)
(* <<year, month, day>>, setDate(n) with n past the end of the month rolls *)
(* over into the following months, and the result is printed YYYY-MM-DD    *)
InputTodays ==
  {<<2026, 10, 29>>, <<2026, 12, 20>>, <<2024, 2, 10>>, <<2025, 2, 10>>,
   <<2026, 1, 31>>, <<2026, 4, 8>>}

IsLeapYear(y) == (y % 4 = 0 /\ y % 100 # 0) \/ y % 400 = 0

DaysInMonth(y, m) ==
  IF m = 2 THEN (IF IsLeapYear(y) THEN 29 ELSE 28)
  ELSE IF m \in {4, 6, 9, 11} THEN 30 ELSE 31

FirstOfNextMonth(date) ==
  IF date[2] = 12 THEN <<date[1] + 1, 1, 1>> ELSE <<date[1], date[2] + 1, 1>>

RECURSIVE SetDate(_, _)
SetDate(date, n) ==
  IF n <= DaysInMonth(date[1], date[2]) THEN <<date[1], date[2], n>>
  ELSE SetDate(FirstOfNextMonth(date), n - DaysInMonth(date[1], date[2]))

getPageStartDateOn_weekly(today, pageIdx) ==
  SetDate(today, today[3] + pageIdx * (DAYS_PER_PAGE - 1))

getPageStartDateOn(today, pageIdx) ==
  SetDate(today, today[3] + pageIdx * DAYS_PER_PAGE)

getActualDateOn(today, dayIndex, pageIdx) ==
  LET windowStart == getPageStartDateOn(today, pageIdx)
  IN  SetDate(windowStart, windowStart[3] + dayIndex)

(* the calendar day after a date, and the day k days after it *)
NextDay(date) ==
  IF date[3] < DaysInMonth(date[1], date[2])
    THEN <<date[1], date[2], date[3] + 1>>
    ELSE FirstOfNextMonth(date)

RECURSIVE AddDays(_, _)
AddDays(date, k) == IF k = 0 THEN date ELSE AddDays(NextDay(date), k - 1)

DateAt ==
  \E today \in InputTodays, pageIdx \in 0..(MAX_PAGES - 1),
     dayIndex \in 0..(DAYS_PER_PAGE - 1) :
    /\ ev' = Ev("getActualDate", "ok", 0,
                <<today, pageIdx, dayIndex, getActualDateOn(today, dayIndex, pageIdx)>>)
    /\ UNCHANGED <<callFrame, weekSchedule>>

(* ------------------------------ behaviour ----------------------------- *)
Next ==
  \/ PollTick
  \/ PushReceived
  \/ PushForOtherProvider
  \/ RefreshTrigger
  \/ slotsResponse
  \/ kvResponse
  \/ NextPage
  \/ PrevPage
  \/ ExternalBook
  \/ ChangeProvider
  \/ verifySessionResponse
  \/ Unmount
  \/ Logout
  \/ Login
  \/ toggleDayOff
  \/ deleteByDateResponse
  \/ kvGetResponse
  \/ kvSetResponse
  \/ openAddSlotDialog
  \/ latestSlotsResponse
  \/ handleTimePickerConfirm
  \/ handleTimePickerCancel
  \/ dismissTimePicker
  \/ addSlotResponse
  \/ removeTimeSlot
  \/ removeSlotResponse
  \/ startEditingSlot
  \/ cancelEditingSlot
  \/ saveTimeSlot
  \/ saveSlotResponse
  \/ handleQuickSetup
  \/ confirmQuickSetup
  \/ cancelQuickSetupConfirm
  \/ batchResponse
  \/ handleQuickSetupClear
  \/ skeletonTimerFired
  \/ hideTimerFired

Spec == Init /\ [][Next]_vars

(* the refresh sources against an edit session and page navigation *)
NextSync ==
  \/ PollTick
  \/ PushReceived
  \/ RefreshTrigger
  \/ slotsResponse
  \/ kvResponse
  \/ NextPage
  \/ PrevPage
  \/ startEditingSlot
  \/ cancelEditingSlot

InitSync == InitWith(MaxSyncSteps, 0, {NoClockChange}, {Undefined})

SpecSync == InitSync /\ [][NextSync]_vars

(* edit and delete of a slot, with a customer booking in between and the   *)
(* user logged out in between                                              *)
NextEdits ==
  \/ slotsResponse
  \/ kvResponse
  \/ ExternalBook
  \/ Logout
  \/ startEditingSlot
  \/ cancelEditingSlot
  \/ saveTimeSlot
  \/ saveSlotResponse
  \/ removeTimeSlot
  \/ removeSlotResponse

InitEdits == InitWith(MaxEditSteps, MaxFaults, {NoClockChange}, {Undefined})

SpecEdits == InitEdits /\ [][NextEdits]_vars

(* day toggles whose requests overlap, with a customer booking in between  *)
(* and the user logged out in between                                      *)
NextToggles ==
  \/ slotsResponse
  \/ kvResponse
  \/ ExternalBook
  \/ Logout
  \/ toggleDayOff
  \/ deleteByDateResponse
  \/ kvGetResponse
  \/ kvSetResponse

InitToggles == InitWith(MaxToggleSteps, MaxFaults, {NoClockChange}, {Undefined})

SpecToggles == InitToggles /\ [][NextToggles]_vars

(* single adds whose requests overlap, from the "+" button and from the    *)
(* time picker                                                             *)
NextAdds ==
  \/ slotsResponse
  \/ kvResponse
  \/ openAddSlotDialog
  \/ latestSlotsResponse
  \/ handleTimePickerConfirm
  \/ handleTimePickerCancel
  \/ dismissTimePicker
  \/ addSlotResponse

InitAdds == InitWith(MaxAddSteps, MaxFaults, {NoClockChange}, {Undefined})

SpecAdds == InitAdds /\ [][NextAdds]_vars

(* batch setup and clear, request by request, on every page, with requests *)
(* that are refused and the user logged out in between                     *)
NextBatch ==
  \/ slotsResponse
  \/ kvResponse
  \/ NextPage
  \/ Logout
  \/ handleQuickSetup
  \/ confirmQuickSetup
  \/ cancelQuickSetupConfirm
  \/ batchResponse
  \/ handleQuickSetupClear
  \/ deleteByDateResponse
  \/ kvGetResponse
  \/ kvSetResponse

InitBatch == InitWith(MaxBatchSteps, MaxFaults, {NoClockChange}, {Undefined})

SpecBatch == InitBatch /\ [][NextBatch]_vars

(* batch setup alone, request by request, with requests that are refused,  *)
(* the user logged in throughout                                           *)
NextSetup ==
  \/ slotsResponse
  \/ kvResponse
  \/ handleQuickSetup
  \/ confirmQuickSetup
  \/ cancelQuickSetupConfirm
  \/ batchResponse
  \/ kvGetResponse
  \/ kvSetResponse

InitSetup == InitWith(MaxSetupSteps, MaxFaults, {NoClockChange}, {Undefined})

SpecSetup == InitSetup /\ [][NextSetup]_vars

(* batch setup and clear with requests that are refused, the user logged   *)
(* in throughout                                                           *)
NextBatchFailures ==
  \/ slotsResponse
  \/ kvResponse
  \/ handleQuickSetup
  \/ confirmQuickSetup
  \/ cancelQuickSetupConfirm
  \/ batchResponse
  \/ handleQuickSetupClear
  \/ deleteByDateResponse
  \/ kvGetResponse
  \/ kvSetResponse

InitBatchFailures == InitWith(MaxBatchSteps, MaxFaults, {NoClockChange}, {Undefined})

SpecBatchFailures == InitBatchFailures /\ [][NextBatchFailures]_vars

(* the observed provider, from the prop or from the session, the prop      *)
(* changed and removed, and notifications for both providers               *)
NextProvider ==
  \/ slotsResponse
  \/ kvResponse
  \/ PushReceived
  \/ PushForOtherProvider
  \/ ChangeProvider
  \/ verifySessionResponse
  \/ startEditingSlot
  \/ cancelEditingSlot

InitProvider ==
  InitOf({SessionUser, Null}, MaxProviderSteps, 0, {NoClockChange}, {Undefined}, NoTrip)

SpecProvider == InitProvider /\ [][NextProvider]_vars

(* getActualDate for every current date, page and day index *)
NextDates == DateAt

InitDates == InitWith(0, 0, InputClocks, {Undefined, 0})

SpecDates == InitDates /\ [][NextDates]_vars

(* the conflict checker on the schedule as loaded *)
NextDuplicates ==
  \/ slotsResponse
  \/ kvResponse
  \/ DuplicateCheck

InitDuplicates == InitWith(0, 0, InputClocks, {Undefined, 0})

SpecDuplicates == InitDuplicates /\ [][NextDuplicates]_vars

(* the end time of a request for every start time *)
NextEndTimes == EndTimeOf

InitEndTimes == InitWith(0, 0, InputClocks, {Undefined, 0})

SpecEndTimes == InitEndTimes /\ [][NextEndTimes]_vars

(* where a load puts the rows under each clock *)
NextPlacement == PlaceRows

InitPlacement == InitWith(0, 0, InputClocks, {Undefined, 0})

SpecPlacement == InitPlacement /\ [][NextPlacement]_vars

(* an edit session, navigation and a booking, then rest: only the timer    *)
(* and the pending answers go on, and they are never starved               *)
NextHeal ==
  \/ slotsResponse
  \/ kvResponse
  \/ PollTick
  \/ NextPage
  \/ ExternalBook
  \/ startEditingSlot
  \/ cancelEditingSlot
  \/ PollTickAtRest

InitHeal == InitWith(MaxHealSteps, 0, {NoClockChange}, {Undefined})

SpecHeal ==
  /\ InitHeal
  /\ [][NextHeal]_vars
  /\ WF_vars(PollTickAtRest)
  /\ WF_vars(slotsResponse)
  /\ WF_vars(kvResponse)

(* slot generation for every form content and clock reading *)
NextGen == GenerateBatch

InitGen == InitWith(0, 0, InputClocks, {Undefined, 0})

SpecGen == InitGen /\ [][NextGen]_vars

(* navigation, provider change and teardown against the poll timer, the   *)
(* timers of the skeleton and the loads in flight, for a provider with     *)
(* stored rows                                                             *)
NextViews ==
  \/ slotsResponse
  \/ kvResponse
  \/ PollTick
  \/ PushReceived
  \/ NextPage
  \/ PrevPage
  \/ ChangeProvider
  \/ verifySessionResponse
  \/ Unmount
  \/ skeletonTimerFired
  \/ hideTimerFired

InitViews ==
  /\ InitWith(MaxViewSteps, 0, {NoClockChange}, {Undefined})
  /\ dbSlots # {}

SpecViews == InitViews /\ [][NextViews]_vars

(* who writes the working-day entry, and what a load makes of it *)
NextFlags ==
  \/ slotsResponse
  \/ kvResponse
  \/ PollTick
  \/ toggleDayOff
  \/ deleteByDateResponse
  \/ kvGetResponse
  \/ kvSetResponse
  \/ openAddSlotDialog
  \/ latestSlotsResponse
  \/ addSlotResponse
  \/ removeTimeSlot
  \/ removeSlotResponse
  \/ startEditingSlot
  \/ saveTimeSlot
  \/ saveSlotResponse

InitFlags == InitWith(MaxFlagSteps, MaxFaults, InputClocks, {Undefined})

SpecFlags == InitFlags /\ [][NextFlags]_vars

(* the start time of the automatic add for every latest start *)
NextNextTimes == NextTimeOf

InitNextTimes == InitWith(0, 0, InputClocks, {Undefined, 0})

SpecNextTimes == InitNextTimes /\ [][NextNextTimes]_vars

(* toggles, adds and a clear after a page change *)
NextTargets ==
  \/ slotsResponse
  \/ kvResponse
  \/ NextPage
  \/ toggleDayOff
  \/ deleteByDateResponse
  \/ kvGetResponse
  \/ kvSetResponse
  \/ openAddSlotDialog
  \/ latestSlotsResponse
  \/ handleTimePickerConfirm
  \/ addSlotResponse
  \/ handleQuickSetupClear

InitTargets == InitWith(MaxTargetSteps, 0, {NoClockChange}, {Undefined})

SpecTargets == InitTargets /\ [][NextTargets]_vars

(* The four toggles of a day in a row, with requests that fail.           *)
NextRoundTrip ==
  \/ slotsResponse
  \/ kvResponse
  \/ toggleDayOff
  \/ deleteByDateResponse
  \/ kvGetResponse
  \/ kvSetResponse

InitRoundTrip ==
  InitOf({SessionUser}, MaxRoundTripSteps, MaxFaults, {NoClockChange}, {Undefined}, FirstTrip)

SpecRoundTrip == InitRoundTrip /\ [][NextRoundTrip]_vars

(* A request gets no answer: fetch is called without a timeout and        *)
(* without an abort signal, so its promise never settles and the run waits *)
(* at its await for ever.                                                  *)
requestLost ==
  \E r \in Pending :
    /\ r.phase # "lost"
    /\ faults > 0
    /\ faults' = faults - 1
    /\ Suspended(r, [r EXCEPT !.phase = "lost"])
    /\ ev' = Ev("requestLost", r.phase, 0, RunArg(r))
    /\ UNCHANGED <<storeVars, weekSchedule, editVars, respFrame>>

(* a request that is pending and not lost is answered *)
Answered ==
  \/ slotsResponse
  \/ kvResponse
  \/ batchResponse
  \/ deleteByDateResponse
  \/ kvGetResponse
  \/ kvSetResponse

(* batch setup and clear with their processing flag, with requests that    *)
(* are refused or get no answer and the user logged out in between; every  *)
(* request that is not lost is answered in the end                         *)
NextProcessing ==
  \/ slotsResponse
  \/ kvResponse
  \/ Logout
  \/ requestLost
  \/ handleQuickSetup
  \/ confirmQuickSetup
  \/ cancelQuickSetupConfirm
  \/ batchResponse
  \/ handleQuickSetupClear
  \/ deleteByDateResponse
  \/ kvGetResponse
  \/ kvSetResponse

InitProcessing == InitWith(MaxProcessingSteps, MaxFaults, {NoClockChange}, {Undefined})

SpecProcessing ==
  /\ InitProcessing
  /\ [][NextProcessing]_vars
  /\ WF_vars(Answered)

(* ------------------------------- claims ------------------------------- *)
(* A step that counts down steps is a click, a tick, a notification or a   *)
(* change made by somebody else; every other step is the answer of a       *)
(* request.                                                                *)

(* C1: while an edit session is open (pauseAutoReload set by               *)
(* startEditingSlot and not yet cleared by save, cancel or error), no tick *)
(* of the background poll calls loadSlots.                                 *)
C1_PollSuppressedDuringEdit ==
  (ev.op = "pollTick" /\ ev.paused) => ev.loads = 0

(* C2: while an edit session is open, a push notification for the observed *)
(* provider is dropped: its handler calls loadSlots zero times.            *)
C2_PushDroppedDuringEdit ==
  (ev.op = "pushReceived" /\ ev.paused) => (ev.res = "skipped" /\ ev.loads = 0)

C2_PushDuringEditReached ==
  /\ ev.op = "pushReceived"
  /\ ev.paused
  /\ ev.res = "skipped"
  /\ editingSlot # NoEdit

(* C3: while an edit session is open, no fetch result replaces             *)
(* weekSchedule, whichever source started the fetch (an earlier load still *)
(* in flight, refreshTrigger, page navigation).                            *)
C3_ScheduleKeptDuringEdit ==
  ~(ev.op = "loadDone" /\ ev.res = "applied" /\ ev.paused)

(* C4: every local mutation whose request was answered (add, edit, delete, *)
(* toggle, batch setup, clear), accepted or refused, calls loadSlots       *)
(* exactly once.                                                           *)
C4_MutationRefetchesOnce ==
  ( /\ ev.op \in {"addSlot", "saveTimeSlot", "removeTimeSlot", "toggleDayOff",
                  "executeQuickSetup", "handleQuickSetupClear"}
    /\ ev.res \notin {"dup", "pastDate", "pastTime", "noToken"} )
  => ev.loads = 1

(* C5: saveTimeSlot or removeTimeSlot aimed at a slot that is booked in    *)
(* the store when the request arrives is rejected and leaves the store     *)
(* unchanged, also when the client's copy still shows the slot as open.    *)
C5_BookedSlotRejected ==
  [][ \A r \in dbSlots :
        ( /\ r.booked
          /\ ev'.op \in {"saveTimeSlot", "removeTimeSlot"}
          /\ ev'.arg[1] = r.id )
        => (ev'.res # "ok" /\ dbSlots' = dbSlots) ]_vars

C5_BookedSlotConflictReached ==
  /\ ev.op \in {"saveTimeSlot", "removeTimeSlot"}
  /\ ev.res = "conflict"
  /\ \E r \in dbSlots : r.id = ev.arg[1] /\ r.booked

(* C6: a stored slot that is booked is never removed or modified by a      *)
(* step of the engine (the delete of toggleDayOff included).               *)
C6_BookedSlotsImmutable ==
  [][ \A r \in dbSlots : r.booked => r \in dbSlots' ]_vars

(* C7: no two stored slots of the same date share a normalized start time. *)
C7_NoDuplicateStart ==
  \A a, b \in dbSlots :
    (a.date = b.date /\ normalizeTime(a.start) = normalizeTime(b.start)) => a.id = b.id

(* C8: pressing Save on an edit whose new start time is the time of        *)
(* another slot of the same day, as the client holds the day, is rejected  *)
(* ("dup"): no update request is sent and the slot store is unchanged.     *)
C8_DuplicateEditRejected ==
  [][ ( /\ steps' # steps
        /\ ev'.op \in {"saveTimeSlot", "saveTimeSlotCall"}
        /\ \E s \in DaySlots(editingSlot.dayIndex) :
             /\ s.id # editingSlot.slotId
             /\ normalizeTime(s.time) = normalizeTime(ev'.arg[2]) )
      => (ev'.res = "dup" /\ dbSlots' = dbSlots /\ runs' = runs) ]_vars

C8_DuplicateEditReached ==
  /\ ev.op = "saveTimeSlot"
  /\ ev.res = "dup"
  /\ \E s \in DaySlots(editingSlot.dayIndex) :
       s.id # editingSlot.slotId /\ s.time = ev.arg[2]

(* C9: with the client-held schedule current for the viewed page, a valid  *)
(* batch setup asks for confirmation exactly when the store holds a slot   *)
(* in today..today+6, on every page.                                       *)
C9_ConfirmIffWindowHasSlots ==
  [][ ( /\ steps' # steps
        /\ weekSchedule \in Schedules(clock, pageIndex,
                                       WindowRows(dbSlots, pageIndex), workingDays) )
      => /\ (ev'.op = "handleQuickSetup" /\ ev'.res = "confirm")
              => (\E r \in dbSlots : r.date \in WindowDates)
         /\ ( /\ ev'.op \in {"executeQuickSetup", "executeQuickSetupCall"}
              /\ ev'.arg[1] = "direct" )
              => ~(\E r \in dbSlots : r.date \in WindowDates) ]_vars

(* C10: when a batch setup reports success, the slots stored in            *)
(* today..today+6 are exactly the generated ones (today's past-due times   *)
(* left out), also when none is generated.                                 *)
C10_WindowReplacedByGenerated ==
  [][ (ev'.op = "executeQuickSetup" /\ ev'.res = "ok" /\ ev'.arg[3] = {})
      => LET payload == BatchPayload(ev'.arg[2])
         IN  {<<r.date, r.start>> : r \in {x \in dbSlots' : x.date \in WindowDates}}
               = {<<payload[i].slot_date, payload[i].start_time>> :
                    i \in 1..Len(payload)} ]_vars

(* C11: every step of a batch setup run, the answer of a refused batch     *)
(* request included, either replaces the stored slots of today..today+6 by *)
(* the full generated set, or changes no stored slot: the range delete     *)
(* never takes effect without the insert.                                  *)
C11_BatchAllOrNothing ==
  [][ ev'.op \in {"executeQuickSetup", "executeQuickSetupCall", "batchResponse"}
      => LET payload == BatchPayload(ev'.arg[2])
         IN  \/ dbSlots' = dbSlots
             \/ /\ {r \in dbSlots' : r.date \notin WindowDates}
                     = {r \in dbSlots : r.date \notin WindowDates}
                /\ Cardinality({r \in dbSlots' : r.date \in WindowDates}) = Len(payload)
                /\ \A i \in 1..Len(payload) :
                     \E r \in dbSlots' : /\ r.date = payload[i].slot_date
                                         /\ r.start = payload[i].start_time
                                         /\ r.end = payload[i].end_time
                                         /\ ~r.booked ]_vars

C11_RefusedBatchKeptRowsReached ==
  /\ ev.op = "executeQuickSetup"
  /\ ev.res = "error"
  /\ ev.arg[1] = "confirmed"
  /\ \E r \in dbSlots : r.date \in WindowDates /\ r.id \in {1, 2}

(* C12: when a batch setup whose batch request was sent and accepted        *)
(* reports success, the stored working flag is true for each of the 7      *)
(* dates today..today+6, whatever number of slots landed on each date.     *)
C12_WindowMarkedWorking ==
  (ev.op = "executeQuickSetup" /\ ev.res = "ok" /\ SendsBatch(BatchPayload(ev.arg[2])))
  => \A d \in WindowDates : d \in workingDays

(* C13: a batch setup run that fails, whatever the reason (no credential,  *)
(* refused batch request), calls loadSlots before it ends.                 *)
C13_FailedBatchReloads ==
  (ev.op = "executeQuickSetup" /\ ev.res # "ok") => ev.loads = 1

(* C14: in a batch, day offset 0 keeps exactly the generated start times   *)
(* later than the current time-of-day, and each of the offsets 1..6 keeps  *)
(* every generated start time.                                             *)
C14_PastTimesDroppedTodayOnly ==
  ev.op = "generate"
  => LET now == ev.arg[2]
         slotTimes == ev.arg[3]
         payload == ev.arg[4]
         StartsOn(o) == SelectSeq(payload, LAMBDA x : x.slot_date = Today + o)
     IN  /\ {x.start_time : x \in SeqRange(StartsOn(0))}
               = {normalizeTime(t) : t \in {u \in SeqRange(slotTimes) : Minutes(u) > now}}
         /\ Len(StartsOn(0))
               = Cardinality({u \in SeqRange(slotTimes) : Minutes(u) > now})
         /\ \A o \in 1..(QUICK_SETUP_DAYS - 1) :
              /\ Len(StartsOn(o)) = Len(slotTimes)
              /\ \A i \in 1..Len(slotTimes) :
                   StartsOn(o)[i].start_time = normalizeTime(slotTimes[i])

C14_DroppedAtNowReached ==
  /\ ev.op = "generate"
  /\ \E i \in 1..Len(ev.arg[3]) : Minutes(ev.arg[3][i]) = ev.arg[2]
  /\ \E i \in 1..Len(ev.arg[3]) : Minutes(ev.arg[3][i]) > ev.arg[2]
  /\ \E i \in 1..Len(ev.arg[4]) : ev.arg[4][i].slot_date = Today

(* C15: for from < to and duration > 0, generateTimeSlots returns exactly  *)
(* floor((to - from) / duration) start times, the first at from,           *)
(* consecutive ones duration apart, the last one ending no later than to;  *)
(* none when to - from < duration.                                         *)
C15_GeneratedCount ==
  ev.op = "generate"
  => LET q == ev.arg[1]
         slotTimes == ev.arg[3]
         span == Minutes(q.to) - Minutes(q.from)
     IN  /\ Len(slotTimes) = span \div q.duration
         /\ span < q.duration => slotTimes = <<>>
         /\ Len(slotTimes) > 0 =>
              /\ slotTimes[1] = q.from
              /\ Minutes(slotTimes[Len(slotTimes)]) + q.duration <= Minutes(q.to)
         /\ \A i \in 1..(Len(slotTimes) - 1) :
              Minutes(slotTimes[i + 1]) - Minutes(slotTimes[i]) = q.duration

C15_ExactFitReached ==
  /\ ev.op = "generate"
  /\ Len(ev.arg[3]) >= 2
  /\ (Minutes(ev.arg[1].to) - Minutes(ev.arg[1].from)) % ev.arg[1].duration = 0

(* C16: a batch setup request with from >= to or duration <= 0 is rejected  *)
(* by validation, with no request sent and the slot store, the working-day *)
(* map and the client-held schedule as they were; a request with from < to *)
(* and a positive duration is never rejected by validation, also when the  *)
(* window is shorter than one duration.                                    *)
C16_InvalidRejectedBeforeNetwork ==
  [][ ev'.op \in {"handleQuickSetup", "executeQuickSetup", "executeQuickSetupCall"}
      => LET q == ev'.arg[2]
             invalid == Minutes(q.from) >= Minutes(q.to) \/ q.duration <= 0
         IN  /\ invalid <=> (ev'.op = "handleQuickSetup" /\ ev'.res = "invalid")
             /\ invalid => /\ dbSlots' = dbSlots
                           /\ workingDays' = workingDays
                           /\ weekSchedule' = weekSchedule
                           /\ runs' = runs
                           /\ ev'.loads = 0 ]_vars

C16_InvalidRejectedReached ==
  /\ ev.op = "handleQuickSetup"
  /\ ev.res = "invalid"
  /\ Minutes(ev.arg[2].from) >= Minutes(ev.arg[2].to)
  /\ dbSlots # {}

(* C17: an add that reaches instantAddTimeSlot for a date and start time    *)
(* creates no slot, and leaves the slot store as it was, when the store    *)
(* already holds that start time on that date, when the date is before     *)
(* today, or when the date is today and the time is not after the current  *)
(* time-of-day.                                                            *)
C17_RejectedAddLeavesStore ==
  [][ ev'.op = "addSlot"
      => LET slotDate == ev'.arg[1]
             slotTime == ev'.arg[2]
         IN  ( \/ \E r \in dbSlots : /\ r.date = slotDate
                                      /\ normalizeTime(r.start) = normalizeTime(slotTime)
               \/ slotDate < Today
               \/ slotDate = Today /\ Minutes(slotTime) <= Now )
             => dbSlots' = dbSlots ]_vars

(* C18: the click takes its direction from the day as shown and aims at    *)
(* the date of that day.  On a day shown as working, the delete of a       *)
(* toggleDayOff run removes exactly the rows of the date, and when the run *)
(* reports the day as turned off the date has no stored slot and its       *)
(* stored flag is cleared; on a day shown as off, the run changes no       *)
(* stored slot and when it reports the day as turned on the date's stored  *)
(* flag is set.                                                            *)
C18_ToggleOffClearsOnSets ==
  [][ /\ (steps' # steps /\ ev'.op \in {"toggleDayOff", "toggleDayOffCall"})
           => /\ ev'.arg[2] = getActualDate(ev'.arg[1], pageIndex)
              /\ ev'.op = "toggleDayOffCall"
                   => (ev'.res = "delete" <=> ~weekSchedule[ev'.arg[1] + 1].isOff)
      /\ (ev'.op = "deleteByDateResponse" /\ ev'.res = "ok" /\ ev'.arg[3] = "toggle")
           => dbSlots' = dbSlots \ RowsOn(dbSlots, ev'.arg[4])
      /\ ev'.op = "kvGetResponse" => dbSlots' = dbSlots
      /\ (ev'.op = "toggleDayOff" /\ ev'.res = "off")
           => /\ RowsOn(dbSlots', ev'.arg[2]) = {}
              /\ ev'.arg[2] \notin workingDays'
      /\ (ev'.op = "toggleDayOff" /\ ev'.res = "on")
           => /\ dbSlots' = dbSlots
              /\ ev'.arg[2] \in workingDays' ]_vars

(* C19: whenever no handler run is under way, also after runs in which a   *)
(* working-day write or a slot store call failed, a date whose stored      *)
(* working flag is not true has no stored slot.                            *)
C19_OffDaysHaveNoSlots ==
  runs = EmptyBag => \A r \in dbSlots : r.date \in workingDays

(* C20: when four toggles of a day shown as working, made in a row (each  *)
(* clicked after the one before has returned), have reported off, on, off, *)
(* on, the day is shown as working again, the stored working flag of its   *)
(* date is what it was at the first click, and none of the slots the date  *)
(* held at the first click is stored.                                      *)
C20_OffOnTwice ==
  ev.trip.done = <<"off", "on", "off", "on">>
  => /\ ~weekSchedule[ev.trip.day + 1].isOff
     /\ (ev.trip.date \in workingDays) <=> ev.trip.isWorkingDay
     /\ \A r \in dbSlots : r.id \notin ev.trip.ids

(* C21: when a clear reports success, run with a credential and with its   *)
(* working-day writes stored, no stored slot is dated today or later       *)
(* (whatever page is viewed) and no such date is flagged working.          *)
C21_ClearRemovesAllFuture ==
  (ev.op = "handleQuickSetupClear" /\ ev.res = "ok" /\ ev.arg[1] = {})
  => /\ \A r \in dbSlots : r.date < Today
     /\ \A d \in workingDays : d < Today

(* C22: at every moment at most one realtime channel is open and it is     *)
(* filtered on the observed provider; a notification for a provider that   *)
(* is not the observed one starts no refresh.                              *)
C22_OneChannelForObservedProvider ==
  /\ Cardinality(sub) <= 1
  /\ \A c \in sub : c.barber = barberId
  /\ (ev.op = "pushReceived" /\ ev.arg[1] # barberId) => ev.loads = 0

C22_OldProviderPushReached ==
  /\ ev.op = "pushReceived"
  /\ ev.arg[1] = "b1"
  /\ barberId = "b2"
  /\ sub = {Channel("b2", pauseAutoReload, pageIndex)}

(* C23: in every reachable state 0 <= pageIndex < MAX_PAGES, whatever       *)
(* sequence of back and next presses was made.                             *)
C23_PageIndexInRange ==
  0 <= pageIndex /\ pageIndex < MAX_PAGES

C23_LastPageReached ==
  /\ ev.op = "setPageIndex"
  /\ pageIndex = MAX_PAGES - 1

(* C24: for a fixed current date, the dates of pages 0..2 and day indexes   *)
(* 0..7 are pairwise distinct and are exactly the 24 consecutive days      *)
(* today .. today+23; the date of page p, index o is day p * 8 + o.        *)
C24_PagesContiguous ==
  ev.op = "getActualDate"
  => LET today == ev.arg[1]
         Cells == (0..(MAX_PAGES - 1)) \X (0..(DAYS_PER_PAGE - 1))
         dateAt(c) == getActualDateOn(today, c[2], c[1])
     IN  /\ ev.arg[4] = AddDays(today, ev.arg[2] * DAYS_PER_PAGE + ev.arg[3])
         /\ \A c1, c2 \in Cells : dateAt(c1) = dateAt(c2) => c1 = c2
         /\ {dateAt(c) : c \in Cells}
              = {AddDays(today, k) : k \in 0..(MAX_PAGES * DAYS_PER_PAGE - 1)}

C24_YearEndCrossedReached ==
  /\ ev.op = "getActualDate"
  /\ ev.arg[2] = MAX_PAGES - 1
  /\ ev.arg[3] = DAYS_PER_PAGE - 1
  /\ ev.arg[4][1] = ev.arg[1][1] + 1

(* C25: one edit session at most is open; startEditingSlot sets the        *)
(* refresh suppression, and it is cleared when the session ends by a       *)
(* successful save or by cancel and on every failure path of save (no      *)
(* credential, failed or refused update); it is never set without a        *)
(* session.                                                                *)
C25_SuppressionAcquiredAndReleased ==
  /\ ev.op = "startEditingSlot" => (pauseAutoReload /\ editingSlot # NoEdit)
  /\ ev.op = "cancelEditingSlot" => (~pauseAutoReload /\ editingSlot = NoEdit)
  /\ (ev.op = "saveTimeSlot" /\ ev.res = "ok")
       => (~pauseAutoReload /\ editingSlot = NoEdit)
  /\ (ev.op = "saveTimeSlot" /\ ev.res \notin {"ok", "dup"}) => ~pauseAutoReload
  /\ pauseAutoReload => editingSlot # NoEdit

C25_FailedSaveReleasedReached ==
  /\ ev.op = "saveTimeSlot"
  /\ ev.res \in {"noToken", "error"}
  /\ ev.paused
  /\ ~pauseAutoReload

(* C26: isDuplicateTime(day, time, excludeId), called with a time as the   *)
(* callers pass it, is true exactly when some slot of that day has the     *)
(* same normalized start time as time and an id other than excludeId.      *)
C26_DuplicateIffSameNormalizedTime ==
  ev.op = "isDuplicateTime"
  => ( ev.arg[4]
       <=> \E slot \in DaySlots(ev.arg[1]) :
             /\ normalizeTime(slot.time) = normalizeTime(ev.arg[2])
             /\ slot.id # ev.arg[3] )

C26_OwnSlotExcludedReached ==
  /\ ev.op = "isDuplicateTime"
  /\ ~ev.arg[4]
  /\ \E slot \in DaySlots(ev.arg[1]) :
       /\ normalizeTime(slot.time) = normalizeTime(ev.arg[2])
       /\ slot.id = ev.arg[3]

(* C27: every start time and end time that add slot, edit slot and batch   *)
(* setup put into a request to the slot store is written HH:MM:SS.         *)
C27_SentTimesNormalized ==
  LET HasSeconds(t) == Len(t) = 3
  IN  /\ ev.op \in {"instantAddTimeSlotCall"}
           => /\ HasSeconds(AddPayloadAt(ev.arg[1], ev.arg[2]).start_time)
              /\ HasSeconds(AddPayloadAt(ev.arg[1], ev.arg[2]).end_time)
      /\ ev.op = "saveTimeSlotCall"
           => /\ HasSeconds(EditPayload(ev.arg[2]).start_time)
              /\ HasSeconds(EditPayload(ev.arg[2]).end_time)
      /\ (ev.op = "executeQuickSetupCall" /\ ev.res = "batch")
           => LET payload == BatchPayload(ev.arg[2])
              IN  \A i \in 1..Len(payload) : /\ HasSeconds(payload[i].start_time)
                                             /\ HasSeconds(payload[i].end_time)

(* C28: the end time written with a slot is its start time plus D minutes  *)
(* on the same day, D = 60 for a single add and for an edit, also for a    *)
(* start within D minutes of midnight.                                     *)
C28_EndIsStartPlusDuration ==
  ev.op = "endTime"
  => Minutes(ev.arg[2]) = Minutes(ev.arg[1]) + SLOT_MINUTES

(* C29: every poll tick that fires while no edit session is open calls     *)
(* loadSlots, whatever page navigation happened during an earlier session. *)
C29_PollResumesAfterEdit ==
  (ev.op = "pollTick" /\ editingSlot = NoEdit /\ ~pauseAutoReload) => ev.res = "load"

(* C30: once no mutation is issued any more, no edit session is open and   *)
(* the store has stopped changing, the client-held schedule eventually     *)
(* equals the stored slots and working flags of the viewed page and stays  *)
(* equal, given that poll ticks keep firing and fetches keep completing.   *)
C30_EventuallyConsistent ==
  <>[]( (AtRest /\ editingSlot = NoEdit /\ ~pauseAutoReload)
        => weekSchedule \in Schedules(clock, pageIndex,
                                       WindowRows(dbSlots, pageIndex), workingDays) )

(* C31: at every moment at most one poll timer is set, and it is the timer *)
(* of the observed provider and the viewed page; after the view is torn    *)
(* down none is set; so every tick that fires comes from the timer of the  *)
(* provider and page shown at that moment, never from a cancelled one.     *)
C31_OnePollTimer ==
  /\ Cardinality(poll) <= 1
  /\ \A t \in poll : t.barber = barberId /\ t.page = pageIndex
  /\ ~mounted => poll = {}
  /\ ev.op = "pollTick" => (mounted /\ ev.arg = <<barberId, pageIndex>>)

C31_TickAfterBothChangesReached ==
  /\ ev.op = "pollTick"
  /\ ev.res = "load"
  /\ barberId = "b2"
  /\ pageIndex = 1
  /\ poll = {Timer("b2", pauseAutoReload, 1)}

(* C32: the stored working-day map changes only in a step of a run of      *)
(* toggleDayOff, batch setup or clear: add, edit and delete of a slot (the *)
(* last slot of a day included) and every refresh leave it as it was; and  *)
(* every schedule that a loadSlots call sets after reading the map takes   *)
(* each day's isOff from the map alone, whether or not the day has slots;  *)
(* when the read of the map is refused the map counts as empty and every   *)
(* day is shown as off, again whether or not it has slots.                 *)
C32_WorkingFlagFrame ==
  [][ /\ workingDays' # workingDays
           => \/ ev'.op \in {"toggleDayOff", "executeQuickSetup", "handleQuickSetupClear"}
              \/ (ev'.op = "kvSetResponse" /\ ev'.arg[3] \in BatchKinds)
      /\ (ev'.op = "loadDone" /\ ev'.res = "applied" /\ ev'.arg[1] = "ok")
           => \A i \in 1..DAYS_PER_PAGE :
                weekSchedule'[i].isOff <=> weekSchedule'[i].date \notin workingDays'
      /\ (ev'.op = "loadDone" /\ ev'.res = "applied" /\ ev'.arg[1] = "notOk")
           => \A i \in 1..DAYS_PER_PAGE : weekSchedule'[i].isOff ]_vars

C32_LastSlotDeletedDayStillWorkingReached ==
  /\ ev.op = "loadDone"
  /\ ev.res = "applied"
  /\ ev.arg = <<"ok", "remove">>
  /\ dbSlots = {}
  /\ workingDays = {Today + 7}
  /\ weekSchedule[8].slots = <<>>
  /\ ~weekSchedule[8].isOff

(* C33: for a day with at least one stored slot, the start time of the     *)
(* automatic add is the latest stored start of the day plus 30 minutes,    *)
(* and it is a time of day within 00:00..23:59.                            *)
C33_NextStartValid ==
  ev.op = "nextTime"
  => /\ Minutes(ev.arg[2]) = Minutes(ev.arg[1]) + NEXT_SLOT_STEP
     /\ ev.arg[2][1] \in 0..23
     /\ ev.arg[2][2] \in 0..59

(* C34: whenever no load is in flight, the client-held schedule is the one *)
(* of the viewed page (day i carries the date of index i of pageIndex) and *)
(* holds no slot of a provider other than the observed one, for every      *)
(* order of navigation, provider change, poll ticks, push notifications    *)
(* and responses.                                                          *)
C34_ScheduleOfObservedProviderAndPage ==
  (mounted /\ inflight = {})
  => /\ Len(weekSchedule) = DAYS_PER_PAGE
     /\ \A i \in 0..(DAYS_PER_PAGE - 1) :
          weekSchedule[i + 1].date = getActualDate(i, pageIndex)
     /\ LocalIds \cap {r.id : r \in otherStore.rows} = {}

(* C35: a toggle or an add issued on day index i acts on the date the      *)
(* client-held schedule carries for that index, weekSchedule[i].date, also *)
(* when the page index changed since the schedule was loaded.              *)
C35_MutationTargetsShownDate ==
  [][ steps' # steps
      => /\ ev'.op \in {"toggleDayOff", "toggleDayOffCall"}
              => ev'.arg[2] = weekSchedule[ev'.arg[1] + 1].date
         /\ ev'.op \in {"addSlot", "instantAddTimeSlotCall", "openAddSlotDialogCall"}
              => ev'.arg[1] = weekSchedule[ev'.arg[3] + 1].date ]_vars

(* C36: when updateWorkingDayState calls for different dates overlap, each *)
(* call whose read was answered and whose write is stored sets the flag of *)
(* its own date to its value and leaves the flag of every other date as it *)
(* was, so that after both the map holds both values.                      *)
C36_OverlappingWritesKeepEachOther ==
  [][ (ev'.op = "toggleDayOff" /\ ev'.arg[4] = "ok" /\ ev'.arg[5] = "ok")
      => /\ (ev'.arg[2] \in workingDays') <=> (ev'.res = "on")
         /\ \A date \in (workingDays \cup workingDays') \ {ev'.arg[2]} :
              (date \in workingDays') <=> (date \in workingDays) ]_vars

(* C37: in every reachable state, after a failed save too, pauseAutoReload *)
(* is set exactly when a slot is under edit (editingSlot is not null).     *)
C37_PausedIffEditing ==
  pauseAutoReload <=> editingSlot # NoEdit

(* C38: a step of a mutation entry point (add, edit, delete, day toggle,   *)
(* batch setup, clear) that finds no session credential leaves the slot    *)
(* store and the working-day map as they were and does not report success. *)
C38_NoCredentialNoMutation ==
  [][ ( \/ /\ ev'.op \in {"addSlot", "saveTimeSlot", "removeTimeSlot",
                            "executeQuickSetup"}
           /\ ev'.res = "noToken"
        \/ ev'.op = "toggleDayOff" /\ ~ev'.arg[3]
        \/ ev'.op = "handleQuickSetupClear" /\ "noToken" \in ev'.arg[1] )
      => /\ dbSlots' = dbSlots
         /\ workingDays' = workingDays
         /\ ev'.res \notin {"ok", "on", "off"} ]_vars

(* C39: a day toggle, a batch setup or a clear whose working-day write was *)
(* issued and not stored does not report success, and the toggle leaves    *)
(* the day shown as it was, not with the flag value that was not written.  *)
C39_FailedFlagWriteIsFailure ==
  [][ /\ (ev'.op = "toggleDayOff" /\ ev'.res \in {"on", "off"} /\ ev'.arg[3])
           => ev'.arg[4] # "putFailed"
      /\ (ev'.op = "toggleDayOff" /\ ev'.arg[3] /\ ev'.arg[4] = "putFailed")
           => weekSchedule'[ev'.arg[1] + 1].isOff = weekSchedule[ev'.arg[1] + 1].isOff
      /\ (ev'.op = "executeQuickSetup" /\ ev'.res = "ok")
           => "putFailed" \notin ev'.arg[3]
      /\ (ev'.op = "handleQuickSetupClear" /\ ev'.res = "ok")
           => "putFailed" \notin ev'.arg[1] ]_vars

(* C40: at most one batch operation (batch setup or clear) is under way at *)
(* any time, isQuickSetupProcessing is set exactly while one is under way, *)
(* and every batch operation eventually returns, on success and on every   *)
(* failure path, with the flag released.                                   *)
C40_OneBatchAndFlagReleased ==
  /\ [](BatchRuns <= 1)
  /\ [](isQuickSetupProcessing <=> batchOps # {})
  /\ (batchOps # {}) ~> (batchOps = {} /\ ~isQuickSetupProcessing)

====
